---- MODULE Spec2Model ----
(***************************************************************************)
(* par-term reference scripts: the observer tool                           *)
(* (scripts/test_script_observer.py) and the coprocess tool                *)
(* (scripts/test_coprocess.py), as state machines.                         *)
(*                                                                         *)
(* Observer: one step per pass of a mode's loop body (one stdin line read, *)
(* decoded and dispatched), with stdout as the sequence of JSON commands   *)
(* the step wrote.  A write on a broken pipe raises BrokenPipeError; a     *)
(* SIGINT raises KeyboardInterrupt in the main thread.                     *)
(***************************************************************************)
EXTENDS Integers, Sequences, FiniteSets, TLC

\* ------------------------------------------------------------------ bounds
\* events a counting mode (monitor, stress) reads before stdin stops
MaxEvents == 3
\* events monitor mode reads under SpecMonitor
MaxMonEvents == 6
\* events monitor mode reads under SpecTopKinds
MaxKindEvents == 8
\* failures recorded in command mode under Spec
MaxFail == 2
\* failures recorded in command mode under SpecCommand
MaxHistory == 11

\* lines the coprocess takes off stdin before stdin stops delivering
MaxLines == 3
\* periodic reports mode_counter's reporter writes while the pipe is intact
MaxReports == 3
\* heartbeats mode_periodic writes while the pipe is intact
MaxBeats == 3
\* lines mode_alert takes off stdin before stdin stops delivering
MaxAlertLines == 2
\* lines mode_log takes off stdin before stdin stops delivering
MaxLogLines == 3

\* the length of the texts given to the command helpers
MaxText == 2

\* ------------------------------------------------------- program constants
\* failed_commands[-10:]
PanelWindow == 10
\* value[:50]
EnvValueCut == 50
\* sorted(...)[:5]
TopKinds == 5
\* event_count % 5 == 0
PanelEvery == 5

\* ------------------------------------------------------------- JSON values
\* A JSON scalar as json.loads returns it: None, an int or a str.
JNull == [j |-> "null", s |-> "", n |-> 0]
JNum(k) == [j |-> "num", s |-> "", n |-> k]
JStr(x) == [j |-> "str", s |-> x, n |-> 0]

\* The value under "data": a dict (o = TRUE, f its items) or anything else.
Obj(f) == [o |-> TRUE, f |-> f]
NonObj == [o |-> FALSE, f |-> <<>>]

\* dict.get(k, default)
get(d, k, default) == IF k \in DOMAIN d THEN d[k] ELSE default

\* str(v) as an f-string formats it
Fmt(v) == IF v.j = "null" THEN "None" ELSE IF v.j = "num" THEN ToString(v.n) ELSE v.s

\* bool(v)
Truthy(v) == IF v.j = "null" THEN FALSE ELSE IF v.j = "num" THEN v.n # 0 ELSE v.s # ""

\* code != 0 alone: a missing exit code taken for a failure
FailedNoneCheckDropped(code) == ~(code.j = "num" /\ code.n = 0)

\* code is not None and code != 0
Failed(code) == code.j # "null" /\ ~(code.j = "num" /\ code.n = 0)

\* kind == "<literal>" as a match statement's case tests it
Is(v, lit) == v.j = "str" /\ v.s = lit

\* One stdin line: whitespace only ("blank"), not JSON ("bad"), JSON that is
\* not an object ("nonobj": a list, a number, a string), or a JSON object
\* ("obj", ev its items).
BlankLine == [t |-> "blank", ev |-> <<>>]
BadLine == [t |-> "bad", ev |-> <<>>]
NonObjLine == [t |-> "nonobj", ev |-> <<>>]
ObjLine(ev) == [t |-> "obj", ev |-> ev]
\* no line: the step read nothing
NoLine == [t |-> "none", ev |-> <<>>]

\* ---------------------------------------------------------------- commands
log(level, message) == [type |-> "Log", level |-> level, message |-> message]
notify(title, body) == [type |-> "Notify", title |-> title, body |-> body]
set_panel(title, content) == [type |-> "SetPanel", title |-> title, content |-> content]
clear_panel == [type |-> "ClearPanel"]
write_text(text) == [type |-> "WriteText", text |-> text]
set_badge(text) == [type |-> "SetBadge", text |-> text]
set_variable(name, value) == [type |-> "SetVariable", name |-> name, value |-> value]
run_command(command) == [type |-> "RunCommand", command |-> command]
change_config(key, value) == [type |-> "ChangeConfig", key |-> key, value |-> value]

\* ------------------------------------------------------------ string helpers
\* sep.join(parts)
RECURSIVE Join(_, _)
Join(parts, sep) ==
    IF parts = <<>> THEN ""
    ELSE IF Len(parts) = 1 THEN parts[1]
    ELSE parts[1] \o sep \o Join(Tail(parts), sep)

\* s.split("/")[-1], scanning back from position i for the last "/"
RECURSIVE LastSegFrom(_, _)
LastSegFrom(s, i) ==
    IF i = 0 THEN s
    ELSE IF SubSeq(s, i, i) = "/" THEN SubSeq(s, i + 1, Len(s))
    ELSE LastSegFrom(s, i - 1)

\* a variant of LastSegment for which a trailing "/" ends no segment
LastSegmentTrailingKept(s) == IF s = "" THEN "" ELSE LastSegFrom(s, Len(s) - 1)

LastSegment(s) == LastSegFrom(s, Len(s))

\* sub in s
Contains(s, sub) ==
    \E i \in 0..(Len(s) - Len(sub)) : SubSeq(s, i + 1, i + Len(sub)) = sub

\* seq[-n:]
LastN(seq, n) == IF Len(seq) <= n THEN seq ELSE SubSeq(seq, Len(seq) - n + 1, Len(seq))

\* s[:n]
Cut(s, n) == IF Len(s) <= n THEN s ELSE SubSeq(s, 1, n)

\* [f(x) for x in seq] with f = "  - " + x
Bullets(seq) == [i \in 1..Len(seq) |-> "  - " \o seq[i]]

\* -------------------------------------------------------------------- state
VARIABLES
    mode,             \* args.mode
    pc,               \* where main is: start, prelude, wait, loop, drain,
                      \* except_json, finally, done
    line,             \* the stdin line the last step read (NoLine: none)
    out,              \* the commands the last step wrote to stdout, in order
    pipe,             \* TRUE once the reader of stdout is gone
    exc,              \* the exception propagating out of main ("none": none)
    sigint,           \* TRUE once a SIGINT has been delivered
    failed_commands,  \* mode_command
    event_count,      \* mode_monitor
    event_kinds,      \* mode_monitor: dict as its items in insertion order
    last_cwd,         \* mode_monitor
    last_title,       \* mode_monitor
    errors,           \* mode_monitor
    stress_count,     \* mode_stress: count
    tpc,              \* coprocess: where the background thread is
    lock,             \* mode_counter: who holds lock ("free": nobody)
    count,            \* mode_counter: count
    received,         \* coprocess: lines taken off stdin so far
    hb,               \* mode_periodic: count
    stdout,           \* coprocess: the lines written to stdout, in order
    args_keywords,    \* coprocess: args.keywords
    stderr,           \* coprocess: the lines written to stderr, in order
    text,             \* coprocess: the stdin line mode_alert's last step read
    logfile,          \* mode_log: what this run appended to the log file, in order
    fopen,            \* mode_log: TRUE while the log file is open
    wire,             \* observer: the line send() printed last ("": none yet)
    decoded           \* observer: that line as json.loads reads it back

monitorVars == <<event_count, event_kinds, last_cwd, last_title, errors>>
\* the observer's own state
obsVars == <<line, out, failed_commands, monitorVars, stress_count>>
\* the coprocess's own state
\* mode_alert's part of it
alertVars == <<args_keywords, stderr, text>>
\* mode_log's part of it
logVars == <<logfile, fopen>>
coVars == <<tpc, lock, count, received, hb, stdout, alertVars, logVars>>
\* the command sink and the host's end of it
sinkVars == <<wire, decoded>>

vars == <<mode, pc, pipe, exc, sigint, obsVars, coVars, sinkVars>>

Modes == {"monitor", "command", "stress", "validate", "demo"}

\* no line has been read back
NotDecoded == [st |-> "none", obj |-> <<>>]

\* test_coprocess.py, line 212: the default of --keywords
DefaultKeywords == "error,fail,panic,warning"

\* ------------------------------------------------------ exceptions and I/O
\* Which clause of main a position is under.
Where(p) ==
    IF p = "start" THEN "main"
    ELSE IF p = "except_json" THEN "except"
    ELSE IF p = "finally" THEN "finally"
    ELSE "try"

\* main's try statement: where control goes when e is raised under `w`.
CatchPc(w, e) ==
    IF w = "try"
    THEN IF e = "JSONDecodeError" THEN "except_json" ELSE "finally"
    ELSE IF w = "except" THEN "finally"
    ELSE "done"

\* ... and the exception still propagating once control is there.
CatchExc(w, e) ==
    IF w = "try" /\ e \in {"BrokenPipeError", "KeyboardInterrupt", "JSONDecodeError"}
    THEN "none"
    ELSE e

\* How a block that calls send() for each of cmds can go: every write done
\* ("ok"), the k+1-th write failing on a broken pipe ("pipe"), or SIGINT
\* arriving after k writes ("int").
Outcomes(cmds) ==
    (IF pipe /\ cmds # <<>> THEN {} ELSE {[k |-> Len(cmds), why |-> "ok"]})
    \cup {[k |-> i, why |-> "pipe"] : i \in (IF pipe THEN {0} ELSE 0..(Len(cmds) - 1)) \cap 0..(Len(cmds) - 1)}
    \cup {[k |-> i, why |-> "int"] : i \in (IF pipe THEN {} ELSE 0..(Len(cmds) - 1))}

\* send(): print(json.dumps(cmd), flush=True) for each of cmds, then raise
\* err if the block raises one itself, else go on at okpc.
Exec(cmds, err, okpc) ==
    \E r \in Outcomes(cmds) :
        LET e == IF r.why = "pipe" THEN "BrokenPipeError"
                 ELSE IF r.why = "int" THEN "KeyboardInterrupt"
                 ELSE err
        IN  /\ out' = SubSeq(cmds, 1, r.k)
            /\ pipe' = (pipe \/ r.why = "pipe")
            /\ pc' = IF e = "none" THEN okpc ELSE CatchPc(Where(pc), e)
            /\ exc' = IF e = "none" THEN exc ELSE CatchExc(Where(pc), e)
            /\ sigint' = (sigint \/ e = "KeyboardInterrupt")

\* ------------------------------------------------------------ event_stream
\* What event_stream does with a line before it yields: skip a blank one,
\* log an undecodable one.  yields = TRUE: json.loads(line) goes to the mode.
event_stream(l) ==
    IF l.t = "blank" THEN [yields |-> FALSE, cmds |-> <<>>]
    ELSE IF l.t = "bad"
    THEN [yields |-> FALSE, cmds |-> <<log("error", "Invalid JSON from terminal: <e>")>>]
    ELSE [yields |-> TRUE, cmds |-> <<>>]

\* What read_event does with a line: "none" for a blank one (return None),
\* "raise" for an undecodable one (json.loads raises), else "event".
read_event(l) ==
    IF l.t = "blank" THEN "none"
    ELSE IF l.t = "bad" THEN "raise"
    ELSE "event"

\* ------------------------------------------------------------ mode_command
\* The match statement of mode_command on one event: the commands sent, the
\* exception it raises after them ("none": none) and failed_commands after.
CommandMatch(kind, data, fc) ==
    IF Is(kind, "bell_rang")
    THEN [cmds |-> <<notify("Bell", "Terminal bell was triggered"),
                     log("info", "Sent notification for bell event")>>,
          err |-> "none", fc |-> fc]
    ELSE IF Is(kind, "cwd_changed")
    THEN IF ~data.o THEN [cmds |-> <<>>, err |-> "AttributeError", fc |-> fc]
         ELSE LET cwd == get(data.f, "cwd", JStr(""))
              IN  IF cwd.j # "str"
                  THEN [cmds |-> <<set_variable("last_cwd", cwd)>>,
                        err |-> "AttributeError", fc |-> fc]
                  ELSE [cmds |-> <<set_variable("last_cwd", cwd),
                                   set_badge(IF LastSegment(cwd.s) # ""
                                             THEN LastSegment(cwd.s) ELSE "/"),
                                   log("info", "Updated badge and variable for CWD: " \o cwd.s)>>,
                        err |-> "none", fc |-> fc]
    ELSE IF Is(kind, "command_complete")
    THEN IF ~data.o THEN [cmds |-> <<>>, err |-> "AttributeError", fc |-> fc]
         ELSE LET cmd == get(data.f, "command", JStr(""))
                  code == get(data.f, "exit_code", JNull)
              IN  IF Failed(code)
                  \* the body's backquotes are written ' here
                  THEN [cmds |-> <<notify("Command Failed",
                                          "'" \o Fmt(cmd) \o "' exited with code " \o Fmt(code)),
                                   set_badge("FAIL:" \o Fmt(code)),
                                   log("error", "Command failed: " \o Fmt(cmd)
                                                \o " exit=" \o Fmt(code))>>,
                        err |-> "none",
                        fc |-> Append(fc, Fmt(cmd) \o " (exit " \o Fmt(code) \o ")")]
                  ELSE IF Truthy(cmd)
                  THEN [cmds |-> <<set_badge("OK"),
                                   log("info", "Command succeeded: " \o Fmt(cmd))>>,
                        err |-> "none", fc |-> fc]
                  ELSE [cmds |-> <<>>, err |-> "none", fc |-> fc]
    ELSE IF Is(kind, "title_changed")
    THEN IF ~data.o THEN [cmds |-> <<>>, err |-> "AttributeError", fc |-> fc]
         ELSE [cmds |-> <<set_variable("last_title", get(data.f, "title", JStr("")))>>,
               err |-> "none", fc |-> fc]
    ELSE IF Is(kind, "environment_changed")
    THEN IF ~data.o THEN [cmds |-> <<>>, err |-> "AttributeError", fc |-> fc]
         ELSE LET key == get(data.f, "key", JStr(""))
                  value == get(data.f, "value", JStr(""))
              IN  IF value.j # "str" THEN [cmds |-> <<>>, err |-> "TypeError", fc |-> fc]
                  ELSE [cmds |-> <<log("info", "Env changed: " \o Fmt(key) \o "="
                                               \o Cut(value.s, EnvValueCut))>>,
                        err |-> "none", fc |-> fc]
    ELSE IF Is(kind, "user_var_changed")
    THEN IF ~data.o THEN [cmds |-> <<>>, err |-> "AttributeError", fc |-> fc]
         ELSE [cmds |-> <<log("info", "User var: " \o Fmt(get(data.f, "name", JStr("")))
                                      \o "=" \o Fmt(get(data.f, "value", JStr(""))))>>,
               err |-> "none", fc |-> fc]
    ELSE [cmds |-> <<log("debug", "Unhandled event: " \o Fmt(kind))>>,
          err |-> "none", fc |-> fc]

\* The panel mode_command sends after the match when failed_commands is
\* not empty.
FailedPanel(fc) ==
    IF fc = <<>> THEN <<>>
    ELSE <<set_panel("Failed Commands",
                     "## Recent Failures\n" \o Join(Bullets(LastN(fc, PanelWindow)), "\n"))>>

\* One pass of mode_command's loop body on a yielded JSON value.
CommandBody(l, fc) ==
    IF l.t # "obj" THEN [cmds |-> <<>>, err |-> "AttributeError", fc |-> fc]
    ELSE LET m == CommandMatch(get(l.ev, "kind", JStr("unknown")),
                               get(l.ev, "data", Obj(<<>>)), fc)
         IN  IF m.err # "none" THEN m
             ELSE [cmds |-> m.cmds \o FailedPanel(m.fc), err |-> "none", fc |-> m.fc]

\* ------------------------------------------------------------ mode_monitor
\* event_kinds[kind] = event_kinds.get(kind, 0) + 1 on the dict's items
RECURSIVE Bump(_, _)
Bump(items, kind) ==
    IF items = <<>> THEN <<[k |-> kind, c |-> 1]>>
    ELSE IF Head(items).k = kind
    THEN <<[k |-> kind, c |-> Head(items).c + 1]>> \o Tail(items)
    ELSE <<Head(items)>> \o Bump(Tail(items), kind)

\* a variant of InsertDesc that places the item before those of its count
RECURSIVE InsertDescBeforeEqual(_, _)
InsertDescBeforeEqual(sorted, item) ==
    IF sorted = <<>> THEN <<item>>
    ELSE IF Head(sorted).c > item.c
    THEN <<Head(sorted)>> \o InsertDescBeforeEqual(Tail(sorted), item)
    ELSE <<item>> \o sorted

\* One item placed into a list ordered by descending count, behind every
\* item of the same count (sorted() is stable).
RECURSIVE InsertDesc(_, _)
InsertDesc(sorted, item) ==
    IF sorted = <<>> THEN <<item>>
    ELSE IF Head(sorted).c >= item.c
    THEN <<Head(sorted)>> \o InsertDesc(Tail(sorted), item)
    ELSE <<item>> \o sorted

\* sorted(event_kinds.items(), key=lambda x: -x[1])
RECURSIVE SortDesc(_)
SortDesc(items) ==
    IF items = <<>> THEN <<>>
    ELSE InsertDesc(SortDesc(SubSeq(items, 1, Len(items) - 1)), items[Len(items)])

\* seq[:n]
FirstN(seq, n) == IF Len(seq) <= n THEN seq ELSE SubSeq(seq, 1, n)

top_kinds(items) == FirstN(SortDesc(items), TopKinds)

\* update_panel(); the rate depends on the clock and is written <rate>, the
\* backquotes are written '
update_panel(ec, ek, cwd, title, errs) ==
    LET top == top_kinds(ek)
        kind_lines == Join([i \in 1..Len(top) |->
                               "  - '" \o Fmt(top[i].k) \o "': " \o ToString(top[i].c)], "\n")
    IN  set_panel("Monitor",
                  "## Monitor\n- **Events**: " \o ToString(ec) \o " (<rate>/s)\n"
                  \o "- **Errors**: " \o ToString(errs) \o "\n"
                  \o "- **CWD**: '" \o Fmt(cwd) \o "'\n"
                  \o "- **Title**: " \o Fmt(title) \o "\n"
                  \o "- **Top events**:\n" \o kind_lines \o "\n")

\* The match statement of mode_monitor.
MonitorMatch(kind, data, cwd, title, errs) ==
    IF Is(kind, "cwd_changed")
    THEN IF ~data.o
         THEN [cmds |-> <<>>, err |-> "AttributeError", cwd |-> cwd, title |-> title, errs |-> errs]
         ELSE LET c == get(data.f, "cwd", JStr("?"))
              IN  [cmds |-> <<log("info", "CWD -> " \o Fmt(c))>>, err |-> "none",
                   cwd |-> c, title |-> title, errs |-> errs]
    ELSE IF Is(kind, "title_changed")
    THEN IF ~data.o
         THEN [cmds |-> <<>>, err |-> "AttributeError", cwd |-> cwd, title |-> title, errs |-> errs]
         ELSE [cmds |-> <<>>, err |-> "none", cwd |-> cwd,
               title |-> get(data.f, "title", JStr("?")), errs |-> errs]
    ELSE IF Is(kind, "command_complete")
    THEN IF ~data.o
         THEN [cmds |-> <<>>, err |-> "AttributeError", cwd |-> cwd, title |-> title, errs |-> errs]
         ELSE LET cmd == get(data.f, "command", JStr(""))
                  code == get(data.f, "exit_code", JNull)
              IN  IF Failed(code)
                  THEN [cmds |-> <<log("warn", "Command failed: " \o Fmt(cmd)
                                               \o " (exit " \o Fmt(code) \o ")")>>,
                        err |-> "none", cwd |-> cwd, title |-> title, errs |-> errs + 1]
                  ELSE [cmds |-> <<>>, err |-> "none", cwd |-> cwd, title |-> title,
                        errs |-> errs]
    ELSE IF Is(kind, "bell_rang")
    THEN [cmds |-> <<log("info", "Bell rang")>>, err |-> "none", cwd |-> cwd,
          title |-> title, errs |-> errs]
    ELSE [cmds |-> <<>>, err |-> "none", cwd |-> cwd, title |-> title, errs |-> errs]

\* a variant of PanelDue that leaves bell_rang out of the immediate kinds
PanelDueWithoutBell(n, kind) ==
    \/ n % PanelEvery = 0
    \/ Is(kind, "cwd_changed")
    \/ Is(kind, "command_complete")

\* the test of line 186, on the count n and the kind of the event just handled
PanelDue(n, kind) ==
    \/ n % PanelEvery = 0
    \/ Is(kind, "cwd_changed")
    \/ Is(kind, "command_complete")
    \/ Is(kind, "bell_rang")

\* One pass of mode_monitor's loop body on a yielded JSON value; the dump
\* of data in the debug line is written <data>.
MonitorBody(l, ec, ek, cwd, title, errs) ==
    IF l.t # "obj"
    THEN [cmds |-> <<>>, err |-> "AttributeError", ec |-> ec + 1, ek |-> ek,
          cwd |-> cwd, title |-> title, errs |-> errs]
    ELSE LET kind == get(l.ev, "kind", JStr("unknown"))
             data == get(l.ev, "data", Obj(<<>>))
             n == ec + 1
             kinds == Bump(ek, kind)
             dbg == log("debug", "[" \o ToString(n) \o "] " \o Fmt(kind) \o ": <data>")
             m == MonitorMatch(kind, data, cwd, title, errs)
         IN  [cmds |-> <<dbg>> \o m.cmds
                       \o (IF m.err = "none" /\ PanelDue(n, kind)
                           THEN <<update_panel(n, kinds, m.cwd, m.title, m.errs)>>
                           ELSE <<>>),
              err |-> m.err, ec |-> n, ek |-> kinds,
              cwd |-> m.cwd, title |-> m.title, errs |-> m.errs]

\* ------------------------------------------------------------- mode_stress
\* One pass of mode_stress's loop body; due is whether report_interval has
\* gone by since the last report; times are written <elapsed> and <rate>.
StressBody(n, due) ==
    IF due
    THEN <<log("info", "Processed " \o ToString(n) \o " events in <elapsed>s (<rate> events/s)"),
           set_panel("Stress Test",
                     "## Throughput\n- Events: " \o ToString(n)
                     \o "\n- Rate: <rate>/s\n- Elapsed: <elapsed>s")>>
    ELSE <<>>

\* ----------------------------------------------------------- mode_validate
\* repr(v)
Repr(v) == IF v.j = "str" THEN "'" \o v.s \o "'" ELSE Fmt(v)

\* a variant of VariantIssues that also wants CommandComplete's exit_code
VariantIssuesExitCodeRequired(data_type, f) ==
    IF Is(data_type, "CwdChanged")
    THEN IF "cwd" \notin DOMAIN f THEN <<"CwdChanged missing 'cwd' field">> ELSE <<>>
    ELSE IF Is(data_type, "CommandComplete")
    THEN IF "command" \notin DOMAIN f \/ "exit_code" \notin DOMAIN f
         THEN <<"CommandComplete missing 'command' field">> ELSE <<>>
    ELSE IF Is(data_type, "TitleChanged")
    THEN IF "title" \notin DOMAIN f THEN <<"TitleChanged missing 'title' field">> ELSE <<>>
    ELSE IF Is(data_type, "SizeChanged")
    THEN IF "cols" \notin DOMAIN f \/ "rows" \notin DOMAIN f
         THEN <<"SizeChanged missing 'cols' or 'rows'">> ELSE <<>>
    ELSE IF Is(data_type, "VariableChanged")
    THEN IF "name" \notin DOMAIN f \/ "value" \notin DOMAIN f
         THEN <<"VariableChanged missing 'name' or 'value'">> ELSE <<>>
    ELSE IF Is(data_type, "EnvironmentChanged")
    THEN IF "key" \notin DOMAIN f \/ "value" \notin DOMAIN f
         THEN <<"EnvironmentChanged missing 'key' or 'value'">> ELSE <<>>
    ELSE <<>>

\* The issue a known data_type adds when a required field is absent.
VariantIssues(data_type, f) ==
    IF Is(data_type, "CwdChanged")
    THEN IF "cwd" \notin DOMAIN f THEN <<"CwdChanged missing 'cwd' field">> ELSE <<>>
    ELSE IF Is(data_type, "CommandComplete")
    THEN IF "command" \notin DOMAIN f
         THEN <<"CommandComplete missing 'command' field">> ELSE <<>>
    ELSE IF Is(data_type, "TitleChanged")
    THEN IF "title" \notin DOMAIN f THEN <<"TitleChanged missing 'title' field">> ELSE <<>>
    ELSE IF Is(data_type, "SizeChanged")
    THEN IF "cols" \notin DOMAIN f \/ "rows" \notin DOMAIN f
         THEN <<"SizeChanged missing 'cols' or 'rows'">> ELSE <<>>
    ELSE IF Is(data_type, "VariableChanged")
    THEN IF "name" \notin DOMAIN f \/ "value" \notin DOMAIN f
         THEN <<"VariableChanged missing 'name' or 'value'">> ELSE <<>>
    ELSE IF Is(data_type, "EnvironmentChanged")
    THEN IF "key" \notin DOMAIN f \/ "value" \notin DOMAIN f
         THEN <<"EnvironmentChanged missing 'key' or 'value'">> ELSE <<>>
    ELSE <<>>

\* issues, as mode_validate collects them for one event
Issues(ev) ==
    LET kind == get(ev, "kind", JStr("?"))
        data == get(ev, "data", Obj(<<>>))
        data_type == get(data.f, "data_type", JStr("?"))
    IN  (IF ~Truthy(kind) THEN <<"missing 'kind'">> ELSE <<>>)
        \o (IF "data" \notin DOMAIN ev THEN <<"missing 'data'">> ELSE <<>>)
        \o (IF "data_type" \notin DOMAIN data.f THEN <<"missing 'data_type' in data">> ELSE <<>>)
        \o VariantIssues(data_type, data.f)

\* a variant of ValidateBody whose issues list outlives the loop body: the
\* issues of the event before, as the last step reported them, come first
ValidateBodyKeepsIssues(l) ==
    IF l.t # "obj" \/ ~get(l.ev, "data", Obj(<<>>)).o
    THEN [cmds |-> <<>>, err |-> "AttributeError"]
    ELSE LET kind == get(l.ev, "kind", JStr("?"))
             data == get(l.ev, "data", Obj(<<>>))
             data_type == get(data.f, "data_type", JStr("?"))
             kept == SelectSeq(out, LAMBDA c : c.type = "Log" /\ c.level = "warn")
             issues == [i \in 1..Len(kept) |-> kept[i].message] \o Issues(l.ev)
         IN  [cmds |-> <<log("info", "Event kind=" \o Repr(kind) \o " data_type="
                                     \o Repr(data_type) \o " fields=<fields>"),
                         IF issues # <<>>
                         THEN log("warn", "Validation issues: " \o Join(issues, ", "))
                         ELSE log("debug", "Event " \o Fmt(kind) \o " validated OK")>>,
              err |-> "none"]

\* One pass of mode_validate's loop body on a yielded JSON value; the dict
\* of field types in the info line is written <fields>.
ValidateBody(l) ==
    IF l.t # "obj" \/ ~get(l.ev, "data", Obj(<<>>)).o
    THEN [cmds |-> <<>>, err |-> "AttributeError"]
    ELSE LET kind == get(l.ev, "kind", JStr("?"))
             data == get(l.ev, "data", Obj(<<>>))
             data_type == get(data.f, "data_type", JStr("?"))
             issues == Issues(l.ev)
         IN  [cmds |-> <<log("info", "Event kind=" \o Repr(kind) \o " data_type="
                                     \o Repr(data_type) \o " fields=<fields>"),
                         IF issues # <<>>
                         THEN log("warn", "Validation issues: " \o Join(issues, ", "))
                         ELSE log("debug", "Event " \o Fmt(kind) \o " validated OK")>>,
              err |-> "none"]

\* --------------------------------------------------------------- mode_demo
\* What mode_demo sends once read_event has returned an event; the time of
\* day is written <ts>.
DemoBody(l) ==
    IF l.t # "obj" THEN [cmds |-> <<>>, err |-> "AttributeError"]
    ELSE LET kind == Fmt(get(l.ev, "kind", JStr("unknown")))
         IN  [cmds |->
                <<log("info", "Received trigger event: " \o kind \o " at <ts>"),
                  log("info", "Demo: testing Log command (you're seeing this)"),
                  notify("Script Demo", "Triggered by " \o kind \o " event at <ts>"),
                  log("info", "Demo: sent Notify command"),
                  set_badge("DEMO"),
                  log("info", "Demo: sent SetBadge command"),
                  set_variable("demo_timestamp", JStr("<ts>")),
                  set_variable("demo_trigger_event", JStr(kind)),
                  log("info", "Demo: sent SetVariable commands"),
                  set_panel("Demo Results", "## Script Demo Complete\n- **Trigger**: '"
                                            \o kind \o "' at <ts>\n<summary>"),
                  log("info", "Demo: sent SetPanel command"),
                  write_text("echo 'par-term script demo: WriteText command works!'\n"),
                  log("info", "Demo: sent WriteText command"),
                  run_command("echo 'par-term script demo: RunCommand works' > /tmp/par_term_script_demo.txt"),
                  log("info", "Demo: sent RunCommand command"),
                  change_config("font_size", JNum(14)),
                  log("info", "Demo: sent ChangeConfig command (may be no-op)"),
                  log("info", "Demo complete! All 9 command types sent. Draining remaining events...")>>,
              err |-> "none"]

\* a variant of NoEvent that also clears the panel
NoEventClearsPanel ==
    <<log("warn", "No event received - stdin closed immediately"), clear_panel>>

\* what mode_demo sends when read_event returns None, lines 339-341
NoEvent == <<log("warn", "No event received - stdin closed immediately")>>

\* a variant of DrainBody that clears the panel at every drained event
DrainBodyClearsPanel(l) ==
    IF l.t # "obj" THEN [cmds |-> <<>>, err |-> "AttributeError"]
    ELSE [cmds |-> <<clear_panel,
                     log("debug", "Post-demo event: "
                                  \o Fmt(get(l.ev, "kind", JStr("unknown"))))>>,
          err |-> "none"]

\* One pass of mode_demo's draining loop on a yielded JSON value.
DrainBody(l) ==
    IF l.t # "obj" THEN [cmds |-> <<>>, err |-> "AttributeError"]
    ELSE [cmds |-> <<log("debug", "Post-demo event: "
                                  \o Fmt(get(l.ev, "kind", JStr("unknown"))))>>,
          err |-> "none"]

\* ------------------------------------------------------------------ input
EvBell == [kind |-> JStr("bell_rang"), data |-> Obj([data_type |-> JStr("Bell")])]
\* a cwd_changed event; cwds of at most one element, the empty set leaving
\* the key out
EvCwdOf(cwds) ==
    [kind |-> JStr("cwd_changed"),
     data |-> Obj([k \in {"data_type"} \cup {"cwd" : c \in cwds} |->
                   IF k = "data_type" THEN JStr("CwdChanged")
                   ELSE CHOOSE c \in cwds : TRUE])]
EvCwd == EvCwdOf({JStr("/home/p")})
EvTitle == [kind |-> JStr("title_changed"),
            data |-> Obj([data_type |-> JStr("TitleChanged"), title |-> JStr("vim")])]
EvEnv(v) == [kind |-> JStr("environment_changed"),
             data |-> Obj([data_type |-> JStr("EnvironmentChanged"), key |-> JStr("K"),
                           value |-> v])]
EvUserVar == [kind |-> JStr("user_var_changed"),
              data |-> Obj([data_type |-> JStr("VariableChanged"), name |-> JStr("n"),
                            value |-> JStr("v")])]
EvSize == [kind |-> JStr("size_changed"),
           data |-> Obj([data_type |-> JStr("SizeChanged"), cols |-> JNum(80),
                         rows |-> JNum(24)])]
\* a command_complete event; cmds and codes of at most one element each, an
\* empty one leaving the key out
EvCmd(cmds, codes) ==
    [kind |-> JStr("command_complete"),
     data |-> Obj([k \in {"data_type"} \cup {"command" : c \in cmds}
                         \cup {"exit_code" : c \in codes} |->
                   IF k = "data_type" THEN JStr("CommandComplete")
                   ELSE IF k = "command" THEN CHOOSE c \in cmds : TRUE
                   ELSE CHOOSE c \in codes : TRUE])]
\* an event whose data is not an object
EvNoDict(kind) == [kind |-> JStr(kind), data |-> NonObj]

\* every command_complete event over a few commands and exit codes
CmdEvents ==
    {EvCmd(c, x) : c \in {{}, {JStr("")}, {JStr("ls")}},
                   x \in {{}, {JNull}, {JNum(0)}, {JNum(1)}}}

\* cwd_changed events over paths with and without a last segment, a missing
\* cwd and a null one
CwdEvents ==
    {EvCwdOf(c) : c \in {{}, {JNull}, {JStr("")}, {JStr("/")}, {JStr("/home/p")},
                         {JStr("/home/p/")}, {JStr("p")}, {JStr("a/b")}, {JStr("a/")},
                         {JStr("//")}}}

\* the lines stdin delivers under Spec
Lines ==
    {BlankLine, BadLine, NonObjLine}
    \cup {ObjLine(e) : e \in {EvBell, EvCwd, EvTitle, EvEnv(JStr("v")), EvEnv(JNull),
                              EvUserVar, EvSize, <<>>,
                              EvNoDict("cwd_changed"), EvNoDict("other")}
                             \cup CmdEvents}

\* the lines stdin delivers under SpecCommand
CmdLines ==
    {BlankLine, BadLine}
    \cup {ObjLine(e) : e \in {EvBell, EvCmd({JStr("ls")}, {JNum(0)}),
                              EvCmd({JStr("ls")}, {JNum(1)}),
                              EvCmd({JStr("make")}, {JNum(2)})}}

\* -------------------------------------------------------------------- Init
InitWith(ms) ==
    /\ mode \in ms
    /\ pc = "start"
    /\ line = NoLine
    /\ out = <<>>
    /\ pipe = FALSE
    /\ exc = "none"
    /\ sigint = FALSE
    /\ failed_commands = <<>>
    /\ event_count = 0
    /\ event_kinds = <<>>
    /\ last_cwd = JStr("?")
    /\ last_title = JStr("?")
    /\ errors = 0
    /\ stress_count = 0
    /\ tpc = "none"
    /\ lock = "free"
    /\ count = 0
    /\ received = 0
    /\ hb = 0
    /\ stdout = <<>>
    /\ args_keywords = DefaultKeywords
    /\ stderr = <<>>
    /\ text = ""
    /\ logfile = <<>>
    /\ fopen = FALSE
    /\ wire = ""
    /\ decoded = NotDecoded

Init == InitWith(Modes)

\* The locals of the running mode after a step: as assigned while the mode
\* function is still running, gone (as at the start) once it has returned
\* or an exception has left it.
Locals(fc, ec, ek, cwd, title, errs, sc) ==
    LET in == pc' \in {"prelude", "wait", "loop", "drain"}
    IN  /\ failed_commands' = IF in THEN fc ELSE <<>>
        /\ event_count' = IF in THEN ec ELSE 0
        /\ event_kinds' = IF in THEN ek ELSE <<>>
        /\ last_cwd' = IF in THEN cwd ELSE JStr("?")
        /\ last_title' = IF in THEN title ELSE JStr("?")
        /\ errors' = IF in THEN errs ELSE 0
        /\ stress_count' = IF in THEN sc ELSE 0

SameLocals ==
    Locals(failed_commands, event_count, event_kinds, last_cwd, last_title, errors,
           stress_count)

\* -------------------------------------------------------------------- main
\* main, line 438: the start-up log, before the try statement
MainStart ==
    /\ pc = "start"
    /\ Exec(<<log("info", "test_script_observer started in '" \o mode \o "' mode")>>,
            "none", "prelude")
    /\ line' = NoLine
    /\ SameLocals
    /\ UNCHANGED <<mode, coVars, sinkVars>>

\* what each mode sends before it reads stdin
Prelude(m) ==
    IF m = "monitor" THEN <<log("info", "Monitor mode started")>>
    ELSE IF m = "command"
    THEN <<log("info", "Command mode started - reacting to terminal events"),
           set_badge("CMD")>>
    ELSE IF m = "stress" THEN <<log("info", "Stress mode started - measuring throughput")>>
    ELSE IF m = "validate"
    THEN <<log("info", "Validate mode started - echoing event structure")>>
    ELSE <<log("info", "Demo mode started - waiting for first event to demo all commands"),
           set_panel("Demo", "## Script Demo\nWaiting for first terminal event...")>>

\* modes[args.mode](args), up to the first read of stdin
ModeStart ==
    /\ pc = "prelude"
    /\ Exec(Prelude(mode), "none", IF mode = "demo" THEN "wait" ELSE "loop")
    /\ line' = NoLine
    /\ SameLocals
    /\ UNCHANGED <<mode, coVars, sinkVars>>

\* main, lines 444-445
ExceptJSON ==
    /\ pc = "except_json"
    /\ Exec(<<log("error", "JSON decode error: <e>")>>, "none", "finally")
    /\ line' = NoLine
    /\ SameLocals
    /\ UNCHANGED <<mode, coVars, sinkVars>>

\* main, lines 446-447; a pending exception goes on out of main afterwards
Finally ==
    /\ pc = "finally"
    /\ Exec(<<log("info", "test_script_observer exiting")>>, "none", "done")
    /\ line' = NoLine
    /\ SameLocals
    /\ UNCHANGED <<mode, coVars, sinkVars>>

\* the host closes its end of the script's stdout
BreakPipe ==
    /\ pc # "done"
    /\ ~pipe
    /\ pipe' = TRUE
    /\ line' = NoLine
    /\ out' = <<>>
    /\ UNCHANGED <<mode, pc, exc, sigint, failed_commands, monitorVars, stress_count, coVars, sinkVars>>

\* SIGINT while main waits (in a read, or between two statements)
Interrupt ==
    /\ pc # "done"
    /\ Exec(<<>>, "KeyboardInterrupt", pc)
    /\ line' = NoLine
    /\ SameLocals
    /\ UNCHANGED <<mode, coVars, sinkVars>>

\* ------------------------------------------------------------- mode loops
\* mode_monitor: one line of stdin through event_stream and the loop body;
\* maxn bounds the events stdin delivers
MonitorLine(L, maxn) ==
    /\ pc = "loop" /\ mode = "monitor"
    /\ \E l \in L :
        /\ line' = l
        /\ IF ~event_stream(l).yields
           THEN /\ Exec(event_stream(l).cmds, "none", "loop")
                /\ SameLocals
           ELSE /\ event_count < maxn
                /\ LET b == MonitorBody(l, event_count, event_kinds, last_cwd, last_title,
                                        errors)
                   IN  /\ Exec(b.cmds, b.err, "loop")
                       /\ Locals(failed_commands, b.ec, b.ek, b.cwd, b.title, b.errs,
                                 stress_count)
    /\ UNCHANGED <<mode, coVars, sinkVars>>

\* mode_monitor after end-of-stream, lines 189-190
MonitorEOF ==
    /\ pc = "loop" /\ mode = "monitor"
    /\ Exec(<<update_panel(event_count, event_kinds, last_cwd, last_title, errors),
              log("info", "Monitor ended after " \o ToString(event_count) \o " events")>>,
            "none", "finally")
    /\ line' = NoLine
    /\ SameLocals
    /\ UNCHANGED <<mode, coVars, sinkVars>>

\* mode_command: one line of stdin through event_stream and the loop body;
\* maxf bounds the failures stdin delivers
CommandLine(L, maxf) ==
    /\ pc = "loop" /\ mode = "command"
    /\ \E l \in L :
        /\ line' = l
        /\ IF ~event_stream(l).yields
           THEN /\ Exec(event_stream(l).cmds, "none", "loop")
                /\ SameLocals
           ELSE LET b == CommandBody(l, failed_commands)
                IN  /\ Len(b.fc) <= maxf
                    /\ Exec(b.cmds, b.err, "loop")
                    /\ Locals(b.fc, event_count, event_kinds, last_cwd, last_title,
                              errors, stress_count)
    /\ UNCHANGED <<mode, coVars, sinkVars>>

\* a variant of CommandEpilogue that clears the panel only after a failure
CommandEpilogueAfterFailure(fc) ==
    IF fc = <<>>
    THEN <<log("info", "Command mode ended")>>
    ELSE <<log("info", "Command mode ended"), clear_panel>>

\* what mode_command sends after its loop, lines 249-250; the history fc
\* plays no part in it
CommandEpilogue(fc) == <<log("info", "Command mode ended"), clear_panel>>

\* mode_command after end-of-stream, lines 249-250
CommandEOF ==
    /\ pc = "loop" /\ mode = "command"
    /\ Exec(CommandEpilogue(failed_commands), "none", "finally")
    /\ line' = NoLine
    /\ SameLocals
    /\ UNCHANGED <<mode, coVars, sinkVars>>

\* mode_stress: one line of stdin through event_stream and the loop body
StressLine(L) ==
    /\ pc = "loop" /\ mode = "stress"
    /\ \E l \in L :
        /\ line' = l
        /\ IF ~event_stream(l).yields
           THEN /\ Exec(event_stream(l).cmds, "none", "loop")
                /\ SameLocals
           ELSE /\ stress_count < MaxEvents
                /\ \E due \in BOOLEAN :
                       Exec(StressBody(stress_count + 1, due), "none", "loop")
                /\ Locals(failed_commands, event_count, event_kinds, last_cwd, last_title,
                          errors, stress_count + 1)
    /\ UNCHANGED <<mode, coVars, sinkVars>>

\* mode_stress after end-of-stream, lines 276-278
StressEOF ==
    /\ pc = "loop" /\ mode = "stress"
    /\ Exec(<<log("info", "Stress test complete: " \o ToString(stress_count)
                          \o " events in <elapsed>s (<rate>/s)")>>,
            "none", "finally")
    /\ line' = NoLine
    /\ SameLocals
    /\ UNCHANGED <<mode, coVars, sinkVars>>

\* mode_validate: one line of stdin through event_stream and the loop body
ValidateLine(L) ==
    /\ pc = "loop" /\ mode = "validate"
    /\ \E l \in L :
        /\ line' = l
        /\ IF ~event_stream(l).yields
           THEN Exec(event_stream(l).cmds, "none", "loop")
           ELSE Exec(ValidateBody(l).cmds, ValidateBody(l).err, "loop")
    /\ SameLocals
    /\ UNCHANGED <<mode, coVars, sinkVars>>

\* mode_validate after end-of-stream, line 330
ValidateEOF ==
    /\ pc = "loop" /\ mode = "validate"
    /\ Exec(<<log("info", "Validate mode ended")>>, "none", "finally")
    /\ line' = NoLine
    /\ SameLocals
    /\ UNCHANGED <<mode, coVars, sinkVars>>

\* mode_demo, lines 338-394: read_event on one line of stdin, then the demo
DemoTrigger(L) ==
    /\ pc = "wait" /\ mode = "demo"
    /\ \E l \in L :
        /\ line' = l
        /\ IF read_event(l) = "none"
           THEN Exec(NoEvent, "none", "finally")
           ELSE IF read_event(l) = "raise"
           THEN Exec(<<>>, "JSONDecodeError", "drain")
           ELSE Exec(DemoBody(l).cmds, DemoBody(l).err, "drain")
    /\ SameLocals
    /\ UNCHANGED <<mode, coVars, sinkVars>>

\* mode_demo, lines 338-341: read_event at end-of-stream
DemoNoEvent ==
    /\ pc = "wait" /\ mode = "demo"
    /\ Exec(NoEvent, "none", "finally")
    /\ line' = NoLine
    /\ SameLocals
    /\ UNCHANGED <<mode, coVars, sinkVars>>

\* mode_demo, lines 397-399: one line of stdin while draining
DemoDrain(L) ==
    /\ pc = "drain" /\ mode = "demo"
    /\ \E l \in L :
        /\ line' = l
        /\ IF ~event_stream(l).yields
           THEN Exec(event_stream(l).cmds, "none", "drain")
           ELSE Exec(DrainBody(l).cmds, DrainBody(l).err, "drain")
    /\ SameLocals
    /\ UNCHANGED <<mode, coVars, sinkVars>>

\* mode_demo after end-of-stream, lines 402-403
DemoEOF ==
    /\ pc = "drain" /\ mode = "demo"
    /\ Exec(<<clear_panel, log("info", "Demo: sent ClearPanel on exit")>>,
            "none", "finally")
    /\ line' = NoLine
    /\ SameLocals
    /\ UNCHANGED <<mode, coVars, sinkVars>>

\* ----------------------------------------------------------- specifications
Next ==
    \/ MainStart
    \/ ModeStart
    \/ MonitorLine(Lines, MaxEvents)
    \/ MonitorEOF
    \/ CommandLine(Lines, MaxFail)
    \/ CommandEOF
    \/ StressLine(Lines)
    \/ StressEOF
    \/ ValidateLine(Lines)
    \/ ValidateEOF
    \/ DemoTrigger(Lines)
    \/ DemoNoEvent
    \/ DemoDrain(Lines)
    \/ DemoEOF
    \/ ExceptJSON
    \/ Finally
    \/ BreakPipe
    \/ Interrupt

Spec == Init /\ [][Next]_vars

\* command mode alone, fed enough failures to fill the panel's window
InitCommand == InitWith({"command"})

NextCommand ==
    \/ MainStart
    \/ ModeStart
    \/ CommandLine(CmdLines, MaxHistory)
    \/ CommandEOF
    \/ Finally
    \/ BreakPipe
    \/ Interrupt

SpecCommand == InitCommand /\ [][NextCommand]_vars

\* command mode alone, fed cwd_changed events
CwdLines ==
    {BlankLine, BadLine}
    \cup {ObjLine(e) : e \in CwdEvents \cup {EvBell, EvTitle, EvUserVar,
                                            EvCmd({JStr("ls")}, {JNum(0)}),
                                            EvNoDict("cwd_changed")}}

NextCwd ==
    \/ MainStart
    \/ ModeStart
    \/ CommandLine(CwdLines, 0)
    \/ CommandEOF
    \/ Finally
    \/ BreakPipe
    \/ Interrupt

SpecCwd == InitCommand /\ [][NextCwd]_vars

\* monitor mode alone, fed enough events for the fifth to come
InitMonitor == InitWith({"monitor"})

MonLines ==
    {BlankLine}
    \cup {ObjLine(e) : e \in {EvBell, EvCwd, EvTitle, EvSize,
                              EvCmd({JStr("ls")}, {JNum(1)})}}

NextMonitor ==
    \/ MainStart
    \/ ModeStart
    \/ MonitorLine(MonLines, MaxMonEvents)
    \/ MonitorEOF
    \/ Finally
    \/ BreakPipe
    \/ Interrupt

SpecMonitor == InitMonitor /\ [][NextMonitor]_vars

\* Monitor mode fed events of six kinds that its match statement leaves to
\* the default case.  The loop body treats these kinds alike, so stdin shows
\* them for the first time in one order (that of PlainEvents) and repeats
\* the ones already shown in any order.
EvPlain(kind) == [kind |-> JStr(kind), data |-> Obj(<<>>)]

PlainEvents ==
    <<EvSize, EvUserVar, EvEnv(JStr("v")), <<>>, EvPlain("variable_changed"),
      EvPlain("focus_changed")>>

KindLines ==
    {BlankLine}
    \cup {ObjLine(PlainEvents[i]) :
             i \in {j \in 1..Len(PlainEvents) : j <= Len(event_kinds) + 1}}

NextTopKinds ==
    \/ MainStart
    \/ ModeStart
    \/ MonitorLine(KindLines, MaxKindEvents)
    \/ MonitorEOF
    \/ Finally
    \/ BreakPipe
    \/ Interrupt

SpecTopKinds == InitMonitor /\ [][NextTopKinds]_vars

\* validate mode alone, fed events of every data_type with every subset of
\* its fields, and events short of kind, data or data_type
InitValidate == InitWith({"validate"})

\* the fields an event of a data_type may carry
FieldsOf(dt) ==
    IF dt = "CwdChanged" THEN {"cwd"}
    ELSE IF dt = "CommandComplete" THEN {"command", "exit_code"}
    ELSE IF dt = "TitleChanged" THEN {"title"}
    ELSE IF dt = "SizeChanged" THEN {"cols", "rows"}
    ELSE IF dt = "VariableChanged" THEN {"name", "value"}
    ELSE IF dt = "EnvironmentChanged" THEN {"key", "value"}
    ELSE {}

DataTypes ==
    {"CwdChanged", "CommandComplete", "TitleChanged", "SizeChanged", "VariableChanged",
     "EnvironmentChanged", "Bell"}

\* an event with the given kind (kinds of at most one element, the empty
\* set leaving the key out), data_type and fields
EvData(kinds, dt, fields) ==
    [k \in {"data"} \cup {"kind" : x \in kinds} |->
        IF k = "kind" THEN CHOOSE x \in kinds : TRUE
        ELSE Obj([d \in {"data_type"} \cup fields |->
                    IF d = "data_type" THEN JStr(dt)
                    ELSE IF d \in {"cols", "rows", "exit_code"} THEN JNum(1)
                    ELSE JStr("x")])]

ValLines ==
    {BlankLine, BadLine}
    \cup UNION {{ObjLine(EvData({JStr("k")}, dt, fs)) : fs \in SUBSET FieldsOf(dt)} :
                   dt \in DataTypes}
    \cup {ObjLine(EvData(ks, dt, FieldsOf(dt))) :
             ks \in {{}, {JStr("")}, {JNull}}, dt \in {"Bell", "CwdChanged"}}
    \cup {ObjLine(EvData({}, "CwdChanged", {}))}
    \cup {ObjLine(e) : e \in {<<>>, [kind |-> JStr("k")],
                              [data |-> Obj(<<>>)],
                              [kind |-> JStr("k"), data |-> Obj(<<>>)],
                              [kind |-> JStr("k"), data |-> Obj([cwd |-> JStr("x")])]}}

NextValidate ==
    \/ MainStart
    \/ ModeStart
    \/ ValidateLine(ValLines)
    \/ ValidateEOF
    \/ Finally
    \/ BreakPipe
    \/ Interrupt

SpecValidate == InitValidate /\ [][NextValidate]_vars

\* ------------------------------------------------------------------ claims
\* the positions in which a mode reads stdin
Reading == {"wait", "loop", "drain"}

\* the commands of a given type among cmds, in order
OfType(cmds, t) == SelectSeq(cmds, LAMBDA c : c.type = t)

\* the step in which a mode's loop ends at end-of-stream and the mode's
\* closing commands are all written
EndOfStream(m) ==
    /\ mode = m /\ pc \in {"loop", "drain"} /\ pc' = "finally"
    /\ ~pipe' /\ ~sigint' /\ exc' = "none"

\* C1: in every observer mode, a line that fails JSON parsing is reported by
\* one error-level Log and the mode goes on reading: with the pipe intact
\* and no interrupt, the step that reads such a line writes exactly that Log
\* and leaves the mode where it was.
C1_BadLineGoesOn ==
    [][(line' = BadLine /\ ~pipe' /\ ~sigint')
       => /\ pc' = pc
          /\ Len(out') = 1
          /\ out'[1].type = "Log" /\ out'[1].level = "error"]_vars

\* C2: no input line makes a mode end with an exception of its own: the
\* only exceptions that ever leave a mode are those of a broken pipe or an
\* interrupt.
C2_NoInputException == exc \notin {"AttributeError", "TypeError", "JSONDecodeError"}

\* C3: after a broken pipe or an interrupt the process ends normally: when
\* main's finally clause has run, neither BrokenPipeError nor
\* KeyboardInterrupt leaves main (exit status 0).
C3_GracefulShutdown ==
    [][(pc = "finally" /\ pc' = "done")
       => exc' \notin {"BrokenPipeError", "KeyboardInterrupt"}]_vars

\* C8: in every observer mode a blank line is skipped: with the pipe intact
\* and no interrupt, the step that reads it writes nothing and leaves the
\* mode where it was (it is not an end-of-stream).
C8_BlankLineSkipped ==
    [][(line' = BlankLine /\ ~pipe' /\ ~sigint') => (pc' = pc /\ out' = <<>>)]_vars

\* C9: in command mode a handled command_complete event with a non-null,
\* non-zero exit code writes one Notify, directly followed by the one
\* SetBadge("FAIL:<code>"), and appends one entry to failed_commands; with a
\* null or zero exit code it writes SetBadge("OK") alone when the command is
\* non-empty, and no SetBadge, no Notify and no entry otherwise.
C9_CommandComplete ==
    [][(/\ mode = "command" /\ pc = "loop" /\ pc' = "loop"
        /\ line'.t = "obj"
        /\ "kind" \in DOMAIN line'.ev /\ line'.ev.kind = JStr("command_complete")
        /\ "data" \in DOMAIN line'.ev /\ line'.ev.data.o)
       => LET f == line'.ev.data.f
              nonzero == /\ "exit_code" \in DOMAIN f
                         /\ f.exit_code # JNull
                         /\ f.exit_code # JNum(0)
              nonempty == "command" \in DOMAIN f /\ f.command # JStr("")
              badges == OfType(out', "SetBadge")
              notifies == OfType(out', "Notify")
          IN  IF nonzero
              THEN /\ Len(notifies) = 1 /\ Len(badges) = 1
                   /\ badges[1].text = "FAIL:" \o Fmt(f.exit_code)
                   /\ \E i \in 1..(Len(out') - 1) :
                          out'[i] = notifies[1] /\ out'[i + 1] = badges[1]
                   /\ Len(failed_commands') = Len(failed_commands) + 1
                   /\ SubSeq(failed_commands', 1, Len(failed_commands)) = failed_commands
              ELSE /\ notifies = <<>>
                   /\ failed_commands' = failed_commands
                   /\ IF nonempty THEN badges = <<set_badge("OK")>> ELSE badges = <<>>]_vars

\* C9's case: a failed command has just been handled
C9_Witness ==
    /\ mode = "command" /\ pc = "loop"
    /\ line = ObjLine(EvCmd({JStr("ls")}, {JNum(1)}))
    /\ failed_commands = <<"ls (exit 1)">>
    /\ Len(out) = 4

\* C12: in command mode the step that takes a cwd_changed event whose cwd is
\* a string (or is left out, which counts as "") writes exactly one
\* SetVariable, of last_cwd to cwd, and after it exactly one SetBadge, whose
\* text is the part of cwd after its last "/" (all of cwd if it has none),
\* or "/" when that part is empty.
C12_CwdChanged ==
    [][(/\ mode = "command" /\ pc = "loop" /\ ~pipe' /\ ~sigint'
        /\ line'.t = "obj"
        /\ "kind" \in DOMAIN line'.ev /\ line'.ev.kind = JStr("cwd_changed")
        /\ "data" \in DOMAIN line'.ev /\ line'.ev.data.o
        /\ ("cwd" \in DOMAIN line'.ev.data.f => line'.ev.data.f.cwd.j = "str"))
       => LET f == line'.ev.data.f
              cwd == IF "cwd" \in DOMAIN f THEN f.cwd.s ELSE ""
              n == Len(cwd)
              slashes == {i \in 1..n : SubSeq(cwd, i, i) = "/"}
              cut == IF slashes = {} THEN 0
                     ELSE CHOOSE i \in slashes : \A j \in slashes : j <= i
              segment == IF cut = n THEN "" ELSE SubSeq(cwd, cut + 1, n)
          IN  /\ pc' = "loop"
              /\ OfType(out', "SetVariable") = <<set_variable("last_cwd", JStr(cwd))>>
              /\ OfType(out', "SetBadge")
                     = <<set_badge(IF segment = "" THEN "/" ELSE segment)>>
              /\ \E i, j \in 1..Len(out') :
                     /\ i < j
                     /\ out'[i].type = "SetVariable" /\ out'[j].type = "SetBadge"]_vars

\* C12's case: a cwd_changed event whose path ends in "/" has been handled
C12_Witness ==
    /\ mode = "command" /\ pc = "loop"
    /\ line = ObjLine(EvCwdOf({JStr("/home/p/")}))
    /\ Len(out) = 3
    /\ out[2] = set_badge("/")

\* the monitor-mode step that handles an event to the end of the loop body
MonitorHandled ==
    /\ mode = "monitor" /\ pc = "loop" /\ pc' = "loop" /\ ~pipe' /\ ~sigint'
    /\ line'.t = "obj"

\* C13: in monitor mode the step that handles the n-th event writes one
\* SetPanel, as its last command, exactly when n is a multiple of 5 or the
\* kind is cwd_changed, command_complete or bell_rang, and none otherwise;
\* a line that is no event writes none; the end-of-stream step writes
\* exactly one, also after zero events.
C13_PanelSchedule ==
    [][/\ MonitorHandled
          => LET n == event_count + 1
                 kind == IF "kind" \in DOMAIN line'.ev THEN line'.ev.kind ELSE JNull
                 panels == OfType(out', "SetPanel")
             IN  /\ event_count' = n
                 /\ IF \/ n % 5 = 0
                       \/ kind \in {JStr("cwd_changed"), JStr("command_complete"),
                                    JStr("bell_rang")}
                    THEN Len(panels) = 1 /\ out'[Len(out')] = panels[1]
                    ELSE panels = <<>>
       /\ (mode = "monitor" /\ pc = "loop" /\ pc' = "loop" /\ line'.t \notin {"obj", "none"})
          => OfType(out', "SetPanel") = <<>>
       /\ EndOfStream("monitor") => Len(OfType(out', "SetPanel")) = 1]_vars

\* C13's case: the fifth event, of a kind that has no panel of its own, has
\* been handled and the panel was written
C13_Witness ==
    /\ mode = "monitor" /\ pc = "loop" /\ event_count = 5
    /\ line = ObjLine(EvTitle)
    /\ out # <<>> /\ out[Len(out)].type = "SetPanel"

\* the kinds of a histogram, in its order
KindsOf(items) == [i \in 1..Len(items) |-> items[i].k]

\* the place of kind k in a histogram
PlaceOf(items, k) == CHOOSE i \in 1..Len(items) : items[i].k = k

\* x comes before y in a listing by descending count, ties by first seen
Before(items, x, y) ==
    x.c > y.c \/ (x.c = y.c /\ PlaceOf(items, x.k) < PlaceOf(items, y.k))

\* C14: in monitor mode, when an event has been handled, the histogram keeps
\* its kinds in the order in which the input first showed them, and the
\* listing of the summary holds min(5, number of kinds) of its entries, by
\* descending count and, at equal count, in first-seen order, every entry
\* left out coming after all those listed; a panel written by the step is
\* the summary of the counts after the event.
C14_TopKinds ==
    [][MonitorHandled
       => LET kind == IF "kind" \in DOMAIN line'.ev THEN line'.ev.kind ELSE JStr("unknown")
              old == KindsOf(event_kinds)
              new == event_kinds'
              top == top_kinds(new)
              listed == {top[i] : i \in 1..Len(top)}
              all == {new[i] : i \in 1..Len(new)}
          IN  /\ KindsOf(new) = IF \E i \in 1..Len(old) : old[i] = kind
                                THEN old ELSE Append(old, kind)
              /\ Len(top) = IF Len(new) <= 5 THEN Len(new) ELSE 5
              /\ listed \subseteq all
              /\ \A i, j \in 1..Len(top) : i < j => Before(new, top[i], top[j])
              /\ \A x \in all \ listed : \A y \in listed : Before(new, y, x)
              /\ \A i \in 1..Len(out') :
                     out'[i].type = "SetPanel"
                     => out'[i] = update_panel(event_count', new, last_cwd', last_title',
                                               errors')]_vars

\* C14's case: six kinds were seen, the sixth twice; it leads the listing,
\* four kinds of count 1 follow in first-seen order and the fifth is left out
C14_Witness ==
    /\ mode = "monitor" /\ pc = "loop" /\ event_count = 7
    /\ line = ObjLine(PlainEvents[6])
    /\ Len(event_kinds) = 6
    /\ event_kinds[6].c = 2
    /\ top_kinds(event_kinds)
          = <<event_kinds[6], event_kinds[1], event_kinds[2], event_kinds[3],
              event_kinds[4]>>

\* the validate-mode step that checks an event to the end of the loop body
ValidateHandled ==
    /\ mode = "validate" /\ pc = "loop" /\ pc' = "loop" /\ ~pipe' /\ ~sigint'
    /\ line'.t = "obj"

\* the warn-level Logs among cmds
Warnings(cmds) == SelectSeq(cmds, LAMBDA c : c.type = "Log" /\ c.level = "warn")

\* C15: in validate mode a checked event that has no kind key (or an empty
\* kind), no data key, or no data_type in its data is reported by one
\* warn-level Log, whose message names each of the elements it lacks:
\* "missing 'kind'", "missing 'data'", "missing 'data_type'".
C15_MissingReported ==
    [][ValidateHandled
       => LET ev == line'.ev
              noKind == "kind" \notin DOMAIN ev \/ ev.kind \in {JStr(""), JNull}
              noData == "data" \notin DOMAIN ev
              noType == noData \/ "data_type" \notin DOMAIN ev.data.f
              warns == Warnings(out')
          IN  (noKind \/ noData \/ noType)
              => /\ Len(warns) = 1
                 /\ noKind => Contains(warns[1].message, "missing 'kind'")
                 /\ noData => Contains(warns[1].message, "missing 'data'")
                 /\ noType => Contains(warns[1].message, "missing 'data_type'")]_vars

\* the fields the six known data_types require
Required(dt) ==
    IF dt = "CwdChanged" THEN {"cwd"}
    ELSE IF dt = "CommandComplete" THEN {"command"}
    ELSE IF dt = "TitleChanged" THEN {"title"}
    ELSE IF dt = "SizeChanged" THEN {"cols", "rows"}
    ELSE IF dt = "VariableChanged" THEN {"name", "value"}
    ELSE {"key", "value"}

\* C16: in validate mode a checked event whose data_type is one of the six
\* known ones is reported with an issue of that data_type exactly when one
\* of the fields the data_type requires is absent; when none is absent and
\* kind is there, the step writes no warn-level Log and one debug-level
\* "validated OK" Log (exit_code is not required of CommandComplete).
C16_RequiredFields ==
    [][(/\ ValidateHandled
        /\ "data" \in DOMAIN line'.ev
        /\ "data_type" \in DOMAIN line'.ev.data.f
        /\ line'.ev.data.f.data_type.j = "str"
        /\ line'.ev.data.f.data_type.s
              \in {"CwdChanged", "CommandComplete", "TitleChanged", "SizeChanged",
                   "VariableChanged", "EnvironmentChanged"})
       => LET ev == line'.ev
              f == ev.data.f
              dt == f.data_type.s
              absent == Required(dt) \ DOMAIN f # {}
              hasKind == "kind" \in DOMAIN ev /\ ev.kind \notin {JStr(""), JNull}
              warns == Warnings(out')
              oks == SelectSeq(out', LAMBDA c : c.type = "Log" /\ c.level = "debug")
          IN  /\ absent <=> (/\ Len(warns) = 1
                             /\ Contains(warns[1].message, dt \o " missing '"))
              /\ (~absent /\ hasKind)
                 => /\ warns = <<>>
                    /\ Len(oks) = 1
                    /\ Contains(oks[1].message, "validated OK")]_vars

\* C16's case: a CommandComplete event with command and without exit_code
\* has been checked and found in order
C16_Witness ==
    /\ mode = "validate" /\ pc = "loop"
    /\ line = ObjLine(EvData({JStr("k")}, "CommandComplete", {"command"}))
    /\ Len(out) = 2
    /\ out[2] = log("debug", "Event k validated OK")

\* the types of the commands among cmds that are no Log, in order
NonLogTypes(cmds) ==
    LET rest == SelectSeq(cmds, LAMBDA c : c.type # "Log")
    IN  [i \in 1..Len(rest) |-> rest[i].type]

\* C17: in demo mode the step that takes the first event writes, Logs
\* apart, Notify, SetBadge, SetVariable, SetVariable, SetPanel, WriteText,
\* RunCommand and ChangeConfig in this order; a step that takes a later line
\* writes Logs only; ClearPanel is written only by the end-of-stream step
\* that follows the demo, which writes exactly one; and once the mode is
\* left it is not entered again.
C17_DemoOrder ==
    [][mode = "demo"
       => /\ (pc = "wait" /\ pc' = "drain" /\ ~pipe' /\ ~sigint')
             => /\ line'.t = "obj"
                /\ NonLogTypes(out')
                      = <<"Notify", "SetBadge", "SetVariable", "SetVariable", "SetPanel",
                          "WriteText", "RunCommand", "ChangeConfig">>
          /\ (pc = "drain" /\ pc' = "drain") => NonLogTypes(out') = <<>>
          /\ OfType(out', "ClearPanel") # <<>>
             => pc = "drain" /\ line' = NoLine /\ Len(OfType(out', "ClearPanel")) = 1
          /\ (EndOfStream("demo") /\ pc = "drain")
             => OfType(out', "ClearPanel") = <<clear_panel>>
          /\ pc' = "drain" => pc \in {"wait", "drain"}
          /\ pc' = "wait" => pc \in {"prelude", "wait"}]_vars

\* C17's case: the demo has run on the first event
C17_Witness ==
    /\ mode = "demo" /\ pc = "drain"
    /\ line = ObjLine(EvBell)
    /\ Len(out) = 18
    /\ out[Len(out) - 2].type = "ChangeConfig"

\* C18: in demo mode the step in which read_event meets end-of-stream
\* before any event writes one warn-level Log and nothing else and leaves
\* the mode; Notify, SetBadge, SetVariable, WriteText, RunCommand,
\* ChangeConfig and ClearPanel are written only by a step that takes an
\* event while waiting or that follows the demo.
C18_NoEvent ==
    [][mode = "demo"
       => /\ (pc = "wait" /\ line' = NoLine /\ pc' # "wait" /\ ~pipe' /\ ~sigint')
             => /\ pc' = "finally"
                /\ Len(out') = 1
                /\ out'[1].type = "Log" /\ out'[1].level = "warn"
          /\ (\E i \in 1..Len(out') :
                 out'[i].type \in {"Notify", "SetBadge", "SetVariable", "WriteText",
                                   "RunCommand", "ChangeConfig", "ClearPanel"})
             => (pc = "wait" /\ line'.t = "obj") \/ pc = "drain"
          /\ pc \in {"finally", "except_json", "done"}
             => pc' \in {"finally", "except_json", "done"}]_vars

\* C18's case: demo mode has met end-of-stream while waiting and has left
C18_Witness ==
    /\ mode = "demo" /\ pc = "finally" /\ ~pipe /\ ~sigint /\ exc = "none"
    /\ line = NoLine
    /\ out = <<log("warn", "No event received - stdin closed immediately")>>

\* C10: in command mode failed_commands never holds more than 10 entries.
C10_HistoryCapped == Len(failed_commands) <= PanelWindow

\* C11 as stated: in command mode ClearPanel is written at end-of-stream if
\* a failure was recorded, and is not written when none was.
C11_ClearPanelIffFailure ==
    [][EndOfStream("command")
       => (OfType(out', "ClearPanel") # <<>> <=> failed_commands # <<>>)]_vars

\* C11 amended: in command mode the end-of-stream step writes exactly one
\* ClearPanel, as its last command, whether or not a failure was recorded.
C11_ClearPanelAlways ==
    [][EndOfStream("command")
       => /\ OfType(out', "ClearPanel") = <<clear_panel>>
          /\ out'[Len(out')] = clear_panel]_vars

\* C11's case: command mode has ended at end-of-stream and its closing
\* commands were written
C11_Witness ==
    /\ mode = "command" /\ pc = "finally" /\ exc = "none" /\ ~pipe /\ ~sigint
    /\ line = NoLine
    /\ clear_panel \in {out[i] : i \in 1..Len(out)}

\* =============================================================== coprocess
\* test_coprocess.py, modes counter, periodic and alert: the main thread and
\* the daemon thread that counter and periodic start, one step per statement
\* that touches shared state, stdin or stdout.  pc is the main thread's
\* position: co_start, co_mode, c_read, c_acquire, c_incr, c_release,
\* c_final, p_beat, p_sleep, a_read, co_finally, co_done; tpc the daemon
\* thread's: r_sleep, r_acquire, r_write, r_release, r_dead, d_read, d_done.

CoModes == {"counter", "periodic"}

\* a line on stdout: what it is, the number it prints and, as a history
\* value, the lines received from stdin when it was written
Out(tag, n) == [tag |-> tag, n |-> n, recv |-> received]

\* the lines of one kind on stdout, in order
Written(tag) == SelectSeq(stdout, LAMBDA w : w.tag = tag)

CoInit ==
    /\ mode \in CoModes
    /\ pc = "co_start"
    /\ pipe = FALSE
    /\ exc = "none"
    /\ sigint = FALSE
    /\ line = NoLine
    /\ out = <<>>
    /\ failed_commands = <<>>
    /\ event_count = 0
    /\ event_kinds = <<>>
    /\ last_cwd = JStr("?")
    /\ last_title = JStr("?")
    /\ errors = 0
    /\ stress_count = 0
    /\ tpc = "none"
    /\ lock = "free"
    /\ count = 0
    /\ received = 0
    /\ hb = 0
    /\ stdout = <<>>
    /\ args_keywords = DefaultKeywords
    /\ stderr = <<>>
    /\ text = ""
    /\ logfile = <<>>
    /\ fopen = FALSE
    /\ wire = ""
    /\ decoded = NotDecoded

\* main, lines 228-229: the start-up line, before the try statement
CoStart ==
    /\ pc = "co_start"
    /\ IF pipe
       THEN pc' = "co_done" /\ exc' = "BrokenPipeError" /\ UNCHANGED stdout
       ELSE pc' = "co_mode" /\ stdout' = Append(stdout, Out("started", 0)) /\ UNCHANGED exc
    /\ UNCHANGED <<mode, pipe, sigint, obsVars, alertVars, logVars, tpc, lock, count, received, hb, sinkVars>>

\* mode_counter, lines 135-147: the reporter thread is started
CounterStart ==
    /\ pc = "co_mode" /\ mode = "counter"
    /\ pc' = "c_read"
    /\ tpc' = "r_sleep"
    /\ UNCHANGED <<mode, pipe, exc, sigint, obsVars, alertVars, logVars, lock, count, received, hb, stdout, sinkVars>>

\* mode_counter, line 150: the loop takes a line off stdin
CounterRead ==
    /\ pc = "c_read"
    /\ received < MaxLines
    /\ received' = received + 1
    /\ pc' = "c_acquire"
    /\ UNCHANGED <<mode, pipe, exc, sigint, obsVars, alertVars, logVars, tpc, lock, count, hb, stdout, sinkVars>>

\* mode_counter, line 150: stdin is at end-of-stream, the loop ends
CounterEOF ==
    /\ pc = "c_read"
    /\ pc' = "c_final"
    /\ UNCHANGED <<mode, pipe, exc, sigint, obsVars, coVars, sinkVars>>

\* mode_counter, line 151: with lock (enter)
CounterAcquire ==
    /\ pc = "c_acquire"
    /\ lock = "free"
    /\ lock' = "main"
    /\ pc' = "c_incr"
    /\ UNCHANGED <<mode, pipe, exc, sigint, obsVars, alertVars, logVars, tpc, count, received, hb, stdout, sinkVars>>

\* mode_counter, line 152: count += 1
CounterIncr ==
    /\ pc = "c_incr"
    /\ count' = count + 1
    /\ pc' = "c_release"
    /\ UNCHANGED <<mode, pipe, exc, sigint, obsVars, alertVars, logVars, tpc, lock, received, hb, stdout, sinkVars>>

\* mode_counter, line 151: with lock (exit)
CounterRelease ==
    /\ pc = "c_release"
    /\ lock' = "free"
    /\ pc' = "c_read"
    /\ UNCHANGED <<mode, pipe, exc, sigint, obsVars, alertVars, logVars, tpc, count, received, hb, stdout, sinkVars>>

\* the count a counter report prints, one too many
ReportedOffByOne(c) == c + 1

\* the count a counter report prints (lines 143 and 156: {count})
Reported(c) == c

\* mode_counter, lines 155-157: the final report, written in the finally
\* clause; a BrokenPipeError goes on to main's except clause
CounterFinal ==
    /\ pc = "c_final"
    /\ pc' = "co_finally"
    /\ stdout' = IF pipe THEN stdout ELSE Append(stdout, Out("final", Reported(count)))
    /\ UNCHANGED <<mode, pipe, exc, sigint, obsVars, alertVars, logVars, tpc, lock, count, received, hb, sinkVars>>

\* report, line 141: time.sleep(interval) returns
ReportTick ==
    /\ tpc = "r_sleep" /\ pc # "co_done"
    /\ pipe \/ Len(Written("counter")) < MaxReports
    /\ tpc' = "r_acquire"
    /\ UNCHANGED <<mode, pc, pipe, exc, sigint, obsVars, alertVars, logVars, lock, count, received, hb, stdout, sinkVars>>

\* report, line 142: with lock (enter)
ReportAcquire ==
    /\ tpc = "r_acquire" /\ pc # "co_done"
    /\ lock = "free"
    /\ lock' = "reporter"
    /\ tpc' = "r_write"
    /\ UNCHANGED <<mode, pc, pipe, exc, sigint, obsVars, alertVars, logVars, count, received, hb, stdout, sinkVars>>

\* report, lines 143-144: the periodic report; a BrokenPipeError leaves the
\* with block (the lock is released) and ends the thread
ReportWrite ==
    /\ tpc = "r_write" /\ pc # "co_done"
    /\ IF pipe
       THEN tpc' = "r_dead" /\ lock' = "free" /\ UNCHANGED stdout
       ELSE /\ tpc' = "r_release"
            /\ stdout' = Append(stdout, Out("counter", Reported(count)))
            /\ UNCHANGED lock
    /\ UNCHANGED <<mode, pc, pipe, exc, sigint, obsVars, alertVars, logVars, count, received, hb, sinkVars>>

\* report, line 142: with lock (exit)
ReportRelease ==
    /\ tpc = "r_release" /\ pc # "co_done"
    /\ lock' = "free"
    /\ tpc' = "r_sleep"
    /\ UNCHANGED <<mode, pc, pipe, exc, sigint, obsVars, alertVars, logVars, count, received, hb, stdout, sinkVars>>

\* mode_periodic, lines 108-120: the draining thread is started
PeriodicStart ==
    /\ pc = "co_mode" /\ mode = "periodic"
    /\ pc' = "p_beat"
    /\ tpc' = "d_read"
    /\ UNCHANGED <<mode, pipe, exc, sigint, obsVars, alertVars, logVars, lock, count, received, hb, stdout, sinkVars>>

\* a variant of PeriodicBeat that waits for stdin: no heartbeat once the
\* draining thread has met end-of-stream
PeriodicBeatNeedsStdin ==
    /\ pc = "p_beat"
    /\ tpc # "d_done"
    /\ pipe \/ hb < MaxBeats
    /\ hb' = hb + 1
    /\ IF pipe
       THEN pc' = "co_finally" /\ UNCHANGED stdout
       ELSE pc' = "p_sleep" /\ stdout' = Append(stdout, Out("heartbeat", hb + 1))
    /\ UNCHANGED <<mode, pipe, exc, sigint, obsVars, alertVars, logVars, tpc, lock, count,
                   received, sinkVars>>

\* mode_periodic, lines 124-127: count += 1 and the heartbeat line; a
\* BrokenPipeError goes on to main's except clause
PeriodicBeat ==
    /\ pc = "p_beat"
    /\ pipe \/ hb < MaxBeats
    /\ hb' = hb + 1
    /\ IF pipe
       THEN pc' = "co_finally" /\ UNCHANGED stdout
       ELSE pc' = "p_sleep" /\ stdout' = Append(stdout, Out("heartbeat", hb + 1))
    /\ UNCHANGED <<mode, pipe, exc, sigint, obsVars, alertVars, logVars, tpc, lock, count, received, sinkVars>>

\* mode_periodic, line 128: time.sleep(interval) returns
PeriodicSleep ==
    /\ pc = "p_sleep"
    /\ pc' = "p_beat"
    /\ UNCHANGED <<mode, pipe, exc, sigint, obsVars, coVars, sinkVars>>

\* drain_stdin, lines 114-115: a line is taken off stdin and dropped
DrainRead ==
    /\ tpc = "d_read" /\ pc # "co_done"
    /\ received < MaxLines
    /\ received' = received + 1
    /\ UNCHANGED <<mode, pc, pipe, exc, sigint, obsVars, alertVars, logVars, tpc, lock, count, hb, stdout, sinkVars>>

\* drain_stdin, line 114: stdin is at end-of-stream, the thread ends
DrainEOF ==
    /\ tpc = "d_read" /\ pc # "co_done"
    /\ tpc' = "d_done"
    /\ UNCHANGED <<mode, pc, pipe, exc, sigint, obsVars, alertVars, logVars, lock, count, received, hb, stdout, sinkVars>>

\* main, lines 235-237: the exit line, written in the finally clause
CoFinally ==
    /\ pc = "co_finally"
    /\ pc' = "co_done"
    /\ IF pipe
       THEN exc' = "BrokenPipeError" /\ UNCHANGED stdout
       ELSE stdout' = Append(stdout, Out("exiting", 0)) /\ UNCHANGED exc
    /\ UNCHANGED <<mode, pipe, sigint, obsVars, alertVars, logVars, tpc, lock, count, received, hb, sinkVars>>

\* --------------------------------------------------------------- mode_alert
\* Strings are handled character by character, as Python does.  ESC (0x1b)
\* cannot be written in a string here and is written ^; the time of day is
\* written <ts>.
ESC == "^"

\* the i-th character of s
Char(s, i) == SubSeq(s, i, i)

\* c in t, for a character c
OneOf(c, t) == \E i \in 1..Len(t) : Char(t, i) = c

UpperCase == "ABCDEFGHIJKLMNOPQRSTUVWXYZ"
LowerCase == "abcdefghijklmnopqrstuvwxyz"
\* the characters str.strip() and str.rstrip() take off
Whitespace == " \t\n\r\f"

\* s.lower()
RECURSIVE Lower(_)
Lower(s) ==
    IF s = "" THEN ""
    ELSE LET c == Char(s, 1)
             l == IF OneOf(c, UpperCase)
                  THEN Char(LowerCase, CHOOSE i \in 1..Len(UpperCase) : Char(UpperCase, i) = c)
                  ELSE c
         IN  l \o Lower(SubSeq(s, 2, Len(s)))

\* s.rstrip(chars)
RECURSIVE RStripOf(_, _)
RStripOf(s, chars) ==
    IF s # "" /\ OneOf(Char(s, Len(s)), chars)
    THEN RStripOf(SubSeq(s, 1, Len(s) - 1), chars)
    ELSE s

\* s.lstrip()
RECURSIVE LStrip(_)
LStrip(s) ==
    IF s # "" /\ OneOf(Char(s, 1), Whitespace) THEN LStrip(SubSeq(s, 2, Len(s))) ELSE s

\* s.strip()
Strip(s) == RStripOf(LStrip(s), Whitespace)

\* s.split(",")
RECURSIVE Split(_)
Split(s) ==
    IF ~OneOf(",", s) THEN <<s>>
    ELSE LET i == CHOOSE j \in 1..Len(s) :
                      Char(s, j) = "," /\ \A k \in 1..(j - 1) : Char(s, k) # ","
         IN  <<SubSeq(s, 1, i - 1)>> \o Split(SubSeq(s, i + 1, Len(s)))

\* a variant of Keywords that keeps the parts that are blank
KeywordsKeepBlank(s) ==
    [i \in 1..Len(Split(s)) |-> Lower(Strip(Split(s)[i]))]

\* line 162: [k.strip().lower() for k in args.keywords.split(",") if k.strip()]
Keywords(s) ==
    LET kept == SelectSeq(Split(s), LAMBDA k : Strip(k) # "")
    IN  [i \in 1..Len(kept) |-> Lower(Strip(kept[i]))]

\* where the run of [0-9;] that starts at position j of s ends
RECURSIVE ParamsEnd(_, _)
ParamsEnd(s, j) ==
    IF j <= Len(s) /\ OneOf(Char(s, j), "0123456789;") THEN ParamsEnd(s, j + 1) ELSE j

\* ansi_re.sub("", s) from position i on, ansi_re = ESC \[ [0-9;]* [a-zA-Z]
RECURSIVE StripAnsiFrom(_, _)
StripAnsiFrom(s, i) ==
    IF i > Len(s) THEN ""
    ELSE IF /\ Char(s, i) = ESC
            /\ i + 1 <= Len(s) /\ Char(s, i + 1) = "["
            /\ ParamsEnd(s, i + 2) <= Len(s)
            /\ OneOf(Char(s, ParamsEnd(s, i + 2)), LowerCase \o UpperCase)
    THEN StripAnsiFrom(s, ParamsEnd(s, i + 2) + 1)
    ELSE Char(s, i) \o StripAnsiFrom(s, i + 1)

StripAnsi(s) == StripAnsiFrom(s, 1)

\* line 171: ansi_re.sub("", line).rstrip("\n").lower()
Clean(l) == Lower(RStripOf(StripAnsi(l), "\n"))

\* a variant of Matched without the break: every keyword found
MatchedNoBreak(keywords, clean) ==
    SelectSeq(keywords, LAMBDA kw : Contains(clean, kw))

\* lines 172-177: the keyword the loop over keywords alerts on, as a
\* sequence of at most one: the first one found in clean, where it breaks
RECURSIVE Matched(_, _)
Matched(keywords, clean) ==
    IF keywords = <<>> THEN <<>>
    ELSE IF Contains(clean, Head(keywords)) THEN <<Head(keywords)>>
    ELSE Matched(Tail(keywords), clean)

\* an alert line on stdout: the keyword it names and the line it quotes
Alert(kw, l) ==
    [tag |-> "alert", n |-> 0, recv |-> received, kw |-> kw,
     quoted |-> RStripOf(l, Whitespace)]

\* mode_alert, lines 162-169: the keywords are parsed; with none the mode
\* writes to stderr and calls sys.exit(1), else it writes what it watches
AlertStart ==
    /\ pc = "co_mode" /\ mode = "alert"
    /\ IF Keywords(args_keywords) = <<>>
       THEN /\ stderr' = Append(stderr, "No keywords specified\n")
            /\ pc' = "co_finally" /\ exc' = "SystemExit"
            /\ UNCHANGED stdout
       ELSE /\ UNCHANGED stderr
            /\ IF pipe
               THEN pc' = "co_finally" /\ UNCHANGED <<exc, stdout>>
               ELSE /\ pc' = "a_read"
                    /\ stdout' = Append(stdout, Out("watching", 0))
                    /\ UNCHANGED exc
    /\ UNCHANGED <<mode, pipe, sigint, obsVars, logVars, args_keywords, text, tpc, lock, count,
                   received, hb, sinkVars>>

\* mode_alert, lines 170-177: one line of stdin and the alert it sets off
AlertLine(L) ==
    /\ pc = "a_read" /\ mode = "alert"
    /\ received < MaxAlertLines
    /\ \E l \in L :
        LET hit == Matched(Keywords(args_keywords), Clean(l))
        IN  /\ text' = l
            /\ received' = received + 1
            /\ IF hit # <<>> /\ pipe
               THEN pc' = "co_finally" /\ UNCHANGED stdout
               ELSE /\ pc' = "a_read"
                    /\ stdout' = stdout \o [i \in 1..Len(hit) |-> Alert(hit[i], l)]
    /\ UNCHANGED <<mode, pipe, exc, sigint, obsVars, logVars, args_keywords, stderr, tpc, lock, count,
                   hb, sinkVars>>

\* mode_alert, line 170: stdin is at end-of-stream
AlertEOF ==
    /\ pc = "a_read" /\ mode = "alert"
    /\ pc' = "co_finally"
    /\ UNCHANGED <<mode, pipe, exc, sigint, obsVars, coVars, sinkVars>>

\* ----------------------------------------------------------------- mode_log
\* what mode_log writes to the file: the two markers and the entry of the
\* n-th line of stdin; the times are left out
Marker(tag) == [tag |-> tag, n |-> 0]
Entry(n) == [tag |-> "entry", n |-> n]

\* mode_log, lines 93-96: the directory is made and the path announced on
\* stdout; a BrokenPipeError goes on to main's except clause
LogStart ==
    /\ pc = "co_mode" /\ mode = "log"
    /\ IF pipe
       THEN pc' = "co_finally" /\ UNCHANGED stdout
       ELSE pc' = "l_open" /\ stdout' = Append(stdout, Out("logging", 0))
    /\ UNCHANGED <<mode, pipe, exc, sigint, obsVars, alertVars, logVars, tpc, lock, count,
                   received, hb, sinkVars>>

\* mode_log, line 97: with logfile.open("a") as f (enter)
LogOpen ==
    /\ pc = "l_open"
    /\ fopen' = TRUE
    /\ pc' = "l_mark"
    /\ UNCHANGED <<mode, pipe, exc, sigint, obsVars, alertVars, logfile, tpc, lock, count,
                   received, hb, stdout, sinkVars>>

\* mode_log, line 98: the session-start marker
LogMark ==
    /\ pc = "l_mark"
    /\ logfile' = Append(logfile, Marker("start"))
    /\ pc' = "l_read"
    /\ UNCHANGED <<mode, pipe, exc, sigint, obsVars, alertVars, fopen, tpc, lock, count,
                   received, hb, stdout, sinkVars>>

\* mode_log, line 99: the loop takes a line off stdin
LogRead ==
    /\ pc = "l_read"
    /\ received < MaxLogLines
    /\ received' = received + 1
    /\ pc' = "l_write"
    /\ UNCHANGED <<mode, pipe, exc, sigint, obsVars, alertVars, logVars, tpc, lock, count, hb,
                   stdout, sinkVars>>

\* mode_log, lines 100-102: the entry of the line just read, flushed
LogWrite ==
    /\ pc = "l_write"
    /\ logfile' = Append(logfile, Entry(received))
    /\ pc' = "l_read"
    /\ UNCHANGED <<mode, pipe, exc, sigint, obsVars, alertVars, fopen, tpc, lock, count,
                   received, hb, stdout, sinkVars>>

\* mode_log, line 99: stdin is at end-of-stream, the loop ends
LogEOF ==
    /\ pc = "l_read"
    /\ pc' = "l_end"
    /\ UNCHANGED <<mode, pipe, exc, sigint, obsVars, coVars, sinkVars>>

\* mode_log, line 103: the session-end marker, after the loop
LogEnd ==
    /\ pc = "l_end"
    /\ logfile' = Append(logfile, Marker("end"))
    /\ pc' = "l_close"
    /\ UNCHANGED <<mode, pipe, exc, sigint, obsVars, alertVars, fopen, tpc, lock, count,
                   received, hb, stdout, sinkVars>>

\* mode_log, line 97: with logfile.open("a") as f (exit)
LogClose ==
    /\ pc = "l_close"
    /\ fopen' = FALSE
    /\ pc' = "co_finally"
    /\ UNCHANGED <<mode, pipe, exc, sigint, obsVars, alertVars, logfile, tpc, lock, count,
                   received, hb, stdout, sinkVars>>

\* where KeyboardInterrupt takes the main thread from position p: out of
\* main when no try statement is around p, else to the finally clause next
\* out (mode_counter's own, line 155, from inside its loop)
InterruptPc(p) ==
    IF p \in {"co_start", "co_finally"} THEN "co_done"
    ELSE IF p \in {"c_read", "c_acquire", "c_incr", "c_release"} THEN "c_final"
    ELSE "co_finally"

\* SIGINT: KeyboardInterrupt is raised in the main thread, wherever it is;
\* a with block it leaves releases the lock or closes the log file
CoInterrupt ==
    /\ pc # "co_done"
    /\ sigint' = TRUE
    /\ pc' = InterruptPc(pc)
    /\ exc' = IF InterruptPc(pc) = "co_done" THEN "KeyboardInterrupt" ELSE exc
    /\ lock' = IF lock = "main" THEN "free" ELSE lock
    /\ fopen' = FALSE
    /\ UNCHANGED <<mode, pipe, obsVars, alertVars, logfile, tpc, count, received, hb, stdout,
                   sinkVars>>

\* the host closes its end of the coprocess's stdout
CoBreakPipe ==
    /\ pc # "co_done"
    /\ ~pipe
    /\ pipe' = TRUE
    /\ UNCHANGED <<mode, pc, exc, sigint, obsVars, coVars, sinkVars>>

CoNext ==
    \/ CoStart
    \/ CounterStart
    \/ CounterRead
    \/ CounterEOF
    \/ CounterAcquire
    \/ CounterIncr
    \/ CounterRelease
    \/ CounterFinal
    \/ ReportTick
    \/ ReportAcquire
    \/ ReportWrite
    \/ ReportRelease
    \/ PeriodicStart
    \/ PeriodicBeat
    \/ PeriodicSleep
    \/ DrainRead
    \/ DrainEOF
    \/ CoFinally
    \/ CoInterrupt
    \/ CoBreakPipe

CoSpec == CoInit /\ [][CoNext]_vars

\* Every step of the program that does not wait for stdin is taken in the
\* end: a thread that can run does run, a timer fires, and a thread waiting
\* for the lock gets it when it is free again and again.  Nothing makes
\* stdin deliver a line or end, the pipe break or a signal arrive.
\* alert mode alone, over keyword lists with blank parts, upper case and
\* none at all, and lines with none, one and two of the keywords, in upper
\* case and inside colour codes
KeywordArgs == {DefaultKeywords, "panic,error", " Panic ,,ERROR", "", " , "}

AlertInputs ==
    {"all good\n",
     "an Error then PANIC\n",
     "^[1;31mERR^[0mOR^[m  \n",
     "pan^ic f^[ail\n",
     "warning"}

AlertInit ==
    /\ mode = "alert"
    /\ pc = "co_start"
    /\ pipe = FALSE
    /\ exc = "none"
    /\ sigint = FALSE
    /\ line = NoLine
    /\ out = <<>>
    /\ failed_commands = <<>>
    /\ event_count = 0
    /\ event_kinds = <<>>
    /\ last_cwd = JStr("?")
    /\ last_title = JStr("?")
    /\ errors = 0
    /\ stress_count = 0
    /\ tpc = "none"
    /\ lock = "free"
    /\ count = 0
    /\ received = 0
    /\ hb = 0
    /\ stdout = <<>>
    /\ args_keywords \in KeywordArgs
    /\ stderr = <<>>
    /\ text = ""
    /\ logfile = <<>>
    /\ fopen = FALSE
    /\ wire = ""
    /\ decoded = NotDecoded

AlertNext ==
    \/ CoStart
    \/ AlertStart
    \/ AlertLine(AlertInputs)
    \/ AlertEOF
    \/ CoFinally
    \/ CoInterrupt
    \/ CoBreakPipe

SpecAlert == AlertInit /\ [][AlertNext]_vars

\* log mode alone
LogInit ==
    /\ mode = "log"
    /\ pc = "co_start"
    /\ pipe = FALSE
    /\ exc = "none"
    /\ sigint = FALSE
    /\ line = NoLine
    /\ out = <<>>
    /\ failed_commands = <<>>
    /\ event_count = 0
    /\ event_kinds = <<>>
    /\ last_cwd = JStr("?")
    /\ last_title = JStr("?")
    /\ errors = 0
    /\ stress_count = 0
    /\ tpc = "none"
    /\ lock = "free"
    /\ count = 0
    /\ received = 0
    /\ hb = 0
    /\ stdout = <<>>
    /\ args_keywords = DefaultKeywords
    /\ stderr = <<>>
    /\ text = ""
    /\ logfile = <<>>
    /\ fopen = FALSE
    /\ wire = ""
    /\ decoded = NotDecoded

LogNext ==
    \/ CoStart
    \/ LogStart
    \/ LogOpen
    \/ LogMark
    \/ LogRead
    \/ LogWrite
    \/ LogEOF
    \/ LogEnd
    \/ LogClose
    \/ CoFinally
    \/ CoInterrupt
    \/ CoBreakPipe

SpecLog == LogInit /\ [][LogNext]_vars

\* -------------------------------------------------------------------- send
\* The sink on its own: send (line 59) writes json.dumps(cmd) and a newline
\* to stdout; the line is then read back by json.loads, the decoder of
\* this protocol's lines (lines 115 and 125).  wire is the text written by
\* the last send, decoded what the decoder made of it.

\* the float k.0, as in change_config("font_size", 14.0)
JFloat(k) == [j |-> "float", s |-> "", n |-> k]

\* a variant of EscapeChar that lets a backslash through as it is
EscapeCharBackslashKept(c) ==
    IF c = "\"" THEN "\\\""
    ELSE IF c = "\n" THEN "\\n"
    ELSE IF c = "\t" THEN "\\t"
    ELSE c

\* json.dumps on one character of a str: quote, backslash and the control
\* characters are escaped
EscapeChar(c) ==
    IF c = "\"" THEN "\\\""
    ELSE IF c = "\\" THEN "\\\\"
    ELSE IF c = "\n" THEN "\\n"
    ELSE IF c = "\t" THEN "\\t"
    ELSE c

RECURSIVE Escape(_)
Escape(s) ==
    IF s = "" THEN "" ELSE EscapeChar(Char(s, 1)) \o Escape(SubSeq(s, 2, Len(s)))

\* json.dumps on a str
EncodeStr(s) == "\"" \o Escape(s) \o "\""

\* json.dumps on a scalar value
EncodeValue(v) ==
    IF v.j = "str" THEN EncodeStr(v.s)
    ELSE IF v.j = "num" THEN ToString(v.n)
    ELSE IF v.j = "float" THEN ToString(v.n) \o ".0"
    ELSE "null"

\* the keys of a command in the order of the helper's dict literal, which
\* json.dumps keeps
Keys(type) ==
    IF type = "Log" THEN <<"type", "level", "message">>
    ELSE IF type = "Notify" THEN <<"type", "title", "body">>
    ELSE IF type = "SetPanel" THEN <<"type", "title", "content">>
    ELSE IF type = "ClearPanel" THEN <<"type">>
    ELSE IF type = "WriteText" THEN <<"type", "text">>
    ELSE IF type = "SetBadge" THEN <<"type", "text">>
    ELSE IF type = "SetVariable" THEN <<"type", "name", "value">>
    ELSE IF type = "RunCommand" THEN <<"type", "command">>
    ELSE <<"type", "key", "value">>

\* json.dumps(cmd) with its default separators
Encode(cmd) ==
    LET keys == Keys(cmd.type)
    IN  "{" \o Join([i \in 1..Len(keys) |->
                        EncodeStr(keys[i]) \o ": "
                        \o (IF keys[i] = "value" THEN EncodeValue(cmd[keys[i]])
                            ELSE EncodeStr(cmd[keys[i]]))], ", ")
        \o "}"

\* json.loads: the characters it skips between tokens
JsonWhitespace == " \n\t"

Digits == "0123456789"

RECURSIVE SkipWs(_, _)
SkipWs(w, i) ==
    IF i <= Len(w) /\ OneOf(Char(w, i), JsonWhitespace) THEN SkipWs(w, i + 1) ELSE i

\* a scan that met something that is no JSON
Fail == [ok |-> FALSE, v |-> JNull, i |-> 0]

\* json.loads on a string, from index i behind the opening quote: escapes
\* are resolved, a control character written as it is is refused
RECURSIVE ScanString(_, _, _)
ScanString(w, i, acc) ==
    IF i > Len(w) THEN Fail
    ELSE LET c == Char(w, i)
         IN  IF c = "\"" THEN [ok |-> TRUE, v |-> JStr(acc), i |-> i + 1]
             ELSE IF c = "\\"
             THEN IF i + 1 > Len(w) THEN Fail
                  ELSE LET e == Char(w, i + 1)
                           u == IF e = "n" THEN "\n"
                                ELSE IF e = "t" THEN "\t"
                                ELSE IF e \in {"\"", "\\", "/"} THEN e
                                ELSE ""
                       IN  IF u = "" THEN Fail ELSE ScanString(w, i + 2, acc \o u)
             ELSE IF c \in {"\n", "\t"} THEN Fail
             ELSE ScanString(w, i + 1, acc \o c)

\* the index behind the digits that start at i
RECURSIVE ScanDigits(_, _)
ScanDigits(w, i) ==
    IF i <= Len(w) /\ OneOf(Char(w, i), Digits) THEN ScanDigits(w, i + 1) ELSE i

\* int() of a string of digits
RECURSIVE ToNat(_)
ToNat(s) ==
    IF s = "" THEN 0
    ELSE ToNat(SubSeq(s, 1, Len(s) - 1)) * 10
         + (CHOOSE d \in 0..9 : ToString(d) = Char(s, Len(s)))

\* json.loads on a number: an int, or a float when a fraction follows (of
\* the floats only those with the fraction 0 are told apart here)
ScanNumber(w, i) ==
    LET neg == Char(w, i) = "-"
        a == IF neg THEN i + 1 ELSE i
        b == ScanDigits(w, a)
        int == IF neg THEN 0 - ToNat(SubSeq(w, a, b - 1)) ELSE ToNat(SubSeq(w, a, b - 1))
        frac == b <= Len(w) /\ Char(w, b) = "."
        e == IF frac THEN ScanDigits(w, b + 1) ELSE b
    IN  IF b = a THEN Fail
        ELSE IF ~frac THEN [ok |-> TRUE, v |-> JNum(int), i |-> b]
        ELSE IF e = b + 1 \/ ToNat(SubSeq(w, b + 1, e - 1)) # 0 THEN Fail
        ELSE [ok |-> TRUE, v |-> JFloat(int), i |-> e]

\* json.loads on a scalar value that starts at i
ScanValue(w, i) ==
    IF i > Len(w) THEN Fail
    ELSE LET c == Char(w, i)
         IN  IF c = "\"" THEN ScanString(w, i + 1, "")
             ELSE IF i + 3 <= Len(w) /\ SubSeq(w, i, i + 3) = "null"
             THEN [ok |-> TRUE, v |-> JNull, i |-> i + 4]
             ELSE IF c = "-" \/ OneOf(c, Digits) THEN ScanNumber(w, i)
             ELSE Fail

\* json.loads on the members of an object, from index i in front of a key;
\* acc holds the pairs read so far, and a key read again replaces its pair
RECURSIVE ScanMembers(_, _, _)
ScanMembers(w, i, acc) ==
    IF i > Len(w) \/ Char(w, i) # "\"" THEN Fail
    ELSE LET k == ScanString(w, i + 1, "")
         IN  IF ~k.ok THEN Fail
             ELSE LET c == SkipWs(w, k.i)
                  IN  IF c > Len(w) \/ Char(w, c) # ":" THEN Fail
                      ELSE LET v == ScanValue(w, SkipWs(w, c + 1))
                           IN  IF ~v.ok THEN Fail
                               ELSE LET d == SkipWs(w, v.i)
                                        pairs == (k.v.s :> v.v) @@ acc
                                    IN  IF d > Len(w) THEN Fail
                                        ELSE IF Char(w, d) = "}"
                                        THEN [ok |-> TRUE, v |-> pairs, i |-> d + 1]
                                        ELSE IF Char(w, d) = ","
                                        THEN ScanMembers(w, SkipWs(w, d + 1), pairs)
                                        ELSE Fail

\* what the decoder returns for a text that is no JSON object
DecodeError == [st |-> "error", obj |-> <<>>]

\* json.loads(line) for a line that holds an object of scalar members
Decode(w) ==
    LET a == SkipWs(w, 1)
    IN  IF a > Len(w) \/ Char(w, a) # "{" THEN DecodeError
        ELSE LET b == SkipWs(w, a + 1)
             IN  IF b <= Len(w) /\ Char(w, b) = "}"
                 THEN IF SkipWs(w, b + 1) = Len(w) + 1
                      THEN [st |-> "ok", obj |-> <<>>]
                      ELSE DecodeError
                 ELSE LET m == ScanMembers(w, b, <<>>)
                      IN  IF m.ok /\ SkipWs(w, m.i) = Len(w) + 1
                          THEN [st |-> "ok", obj |-> m.v]
                          ELSE DecodeError

\* the characters the texts of commands are made of: letters, the
\* characters json.dumps escapes and those the decoder gives a meaning
Alphabet == {"a", "n", "\"", "\\", "\n", "\t", ",", ":", "}", " "}

\* the texts of at most n characters
RECURSIVE TextsOf(_)
TextsOf(n) ==
    IF n = 0 THEN {""}
    ELSE TextsOf(n - 1) \cup {t \o a : t \in TextsOf(n - 1), a \in Alphabet}

Texts == TextsOf(MaxText)

\* a few texts for the field at the side of the one that takes every text
FewTexts == {"t", "\"", "a\\n"}

\* the values set_variable and change_config are given
Values ==
    {JStr(t) : t \in Texts} \cup {JNull, JNum(0), JNum(14), JNum(0 - 1), JFloat(14)}

\* the commands the nine helpers build
Commands ==
    {log(l, t) : l \in {"info", "error"}, t \in Texts}
    \cup {notify(a, t) : a \in FewTexts, t \in Texts}
    \cup {notify(t, a) : a \in FewTexts, t \in Texts}
    \cup {set_panel(a, t) : a \in FewTexts, t \in Texts}
    \cup {set_panel(t, a) : a \in FewTexts, t \in Texts}
    \cup {clear_panel}
    \cup {write_text(t) : t \in Texts}
    \cup {set_badge(t) : t \in Texts}
    \cup {set_variable(a, v) : a \in FewTexts, v \in Values}
    \cup {set_variable(t, JStr("v")) : t \in Texts}
    \cup {run_command(t) : t \in Texts}
    \cup {change_config(a, v) : a \in FewTexts, v \in Values}
    \cup {change_config(t, JFloat(14)) : t \in Texts}

\* send, line 59: one command goes out as one line (send keeps no state:
\* one call is followed here)
SinkSend ==
    /\ pc = "start"
    /\ wire = ""
    /\ \E cmd \in Commands :
        /\ out' = <<cmd>>
        /\ wire' = Encode(cmd) \o "\n"
    /\ decoded' = NotDecoded
    /\ UNCHANGED <<mode, pc, pipe, exc, sigint, line, failed_commands, monitorVars,
                   stress_count, coVars>>

\* the line written last is read back
SinkReceive ==
    /\ pc = "start"
    /\ wire # "" /\ decoded = NotDecoded
    /\ decoded' = Decode(wire)
    /\ UNCHANGED <<mode, pc, pipe, exc, sigint, obsVars, coVars, wire>>

SinkInit == InitWith({"demo"})

SinkNext ==
    \/ SinkSend
    \/ SinkReceive

SpecSink == SinkInit /\ [][SinkNext]_vars

CoFairness ==
    /\ WF_vars(CoStart)
    /\ WF_vars(CounterStart)
    /\ SF_vars(CounterAcquire)
    /\ WF_vars(CounterIncr)
    /\ WF_vars(CounterRelease)
    /\ WF_vars(CounterFinal)
    /\ WF_vars(ReportTick)
    /\ SF_vars(ReportAcquire)
    /\ WF_vars(ReportWrite)
    /\ WF_vars(ReportRelease)
    /\ WF_vars(PeriodicStart)
    /\ WF_vars(PeriodicBeat)
    /\ WF_vars(PeriodicSleep)
    /\ WF_vars(CoFinally)

FairCoSpec == CoInit /\ [][CoNext]_vars /\ CoFairness

\* ------------------------------------------------------- coprocess claims
\* C4: in counter mode the counts of the periodic reports never decrease
\* from one report to the next, and no report prints more than the number
\* of lines received from stdin when it was written.
C4_ReportsMonotone ==
    LET r == Written("counter")
    IN  /\ \A i, j \in 1..Len(r) : i < j => r[i].n <= r[j].n
        /\ \A i \in 1..Len(r) : r[i].n <= r[i].recv

\* C4's case: two periodic reports, lines counted in between
C4_Witness ==
    LET r == Written("counter")
    IN  mode = "counter" /\ Len(r) >= 2 /\ r[1].n < r[2].n

\* C5: in counter mode, once the foreground loop has ended and the final
\* report is written, it is the only final report and its count is the
\* number of lines received from stdin.
C5_FinalCountsAll ==
    LET f == Written("final")
    IN  (mode = "counter" /\ f # <<>>) => (Len(f) = 1 /\ f[1].n = received)

\* C6: in counter mode a thread about to touch count (the increment, the
\* read for a periodic report, the read for the final report) holds the
\* lock.
C6_CountUnderLock ==
    mode = "counter" =>
        /\ pc \in {"c_incr", "c_final"} => lock = "main"
        /\ tpc = "r_write" => lock = "reporter"

\* the foreground loop of the mode is over
LoopEnded == pc \in {"c_final", "co_finally", "co_done"}

\* C7: in counter and periodic mode, once the output pipe is broken or an
\* interrupt is delivered, the foreground loop ends in the end, whatever
\* stdin does.
C7_ShutdownEndsLoop == (pipe \/ sigint) ~> LoopEnded

\* the step in which mode_alert takes a line off stdin with the pipe intact
AlertRead == mode = "alert" /\ pc = "a_read" /\ received' = received + 1 /\ ~pipe

\* kw occurs in the line l, case aside and colour codes taken out
Occurs(kw, l) == Contains(Lower(StripAnsi(l)), kw)

\* C19: in alert mode the step that takes a line writes at most one line,
\* an alert; it writes one exactly when a configured keyword occurs in the
\* line (case aside, colour codes taken out), and the alert then names the
\* first keyword in configured order that occurs and quotes the line.  In
\* particular "an Error then PANIC" under "panic,error" names panic, and
\* ERROR split by colour codes is found under the default keywords.
C19_FirstKeywordWins ==
    [][AlertRead
       => LET kws == Keywords(args_keywords)
              found == {i \in 1..Len(kws) : Occurs(kws[i], text')}
              new == SubSeq(stdout', Len(stdout) + 1, Len(stdout'))
          IN  /\ SubSeq(stdout', 1, Len(stdout)) = stdout
              /\ Len(new) <= 1
              /\ Len(new) = 1 <=> found # {}
              /\ Len(new) = 1
                 => /\ new[1].tag = "alert"
                    /\ new[1].kw = kws[CHOOSE i \in found : \A j \in found : i <= j]
              /\ (args_keywords = "panic,error" /\ text' = "an Error then PANIC\n")
                 => (Len(new) = 1 /\ new[1].kw = "panic")
              /\ (args_keywords = " Panic ,,ERROR" /\ text' = "an Error then PANIC\n")
                 => (Len(new) = 1 /\ new[1].kw = "panic")
              /\ (args_keywords = DefaultKeywords /\ text' = "an Error then PANIC\n")
                 => (Len(new) = 1 /\ new[1].kw = "error")
              /\ (args_keywords = DefaultKeywords /\ text' = "^[1;31mERR^[0mOR^[m  \n")
                 => (Len(new) = 1 /\ new[1].kw = "error"
                     /\ new[1].quoted = "^[1;31mERR^[0mOR^[m")
              /\ text' \in {"all good\n", "pan^ic f^[ail\n"} => new = <<>>]_vars

\* C19's case: a line with two of the keywords has been taken and the one
\* alert names the first configured, which comes second in the line
C19_Witness ==
    /\ mode = "alert" /\ pc = "a_read"
    /\ args_keywords = "panic,error"
    /\ text = "an Error then PANIC\n"
    /\ Len(Written("alert")) = 1
    /\ Written("alert")[1].kw = "panic"

\* args.keywords holds nothing but commas and blanks: no keyword is left
\* after splitting on commas and trimming
NoKeywords ==
    \A i \in 1..Len(args_keywords) : Char(args_keywords, i) \in {",", " ", "\t"}

\* C20: in alert mode with no keyword left after splitting and trimming,
\* no stdin line is ever read and no alert or watch line ever written; the
\* step that runs mode_alert writes "No keywords specified" to stderr and
\* raises SystemExit, and the process then ends with an exception pending
\* (a non-zero exit status).
C20_NoKeywordsExit ==
    /\ [](mode = "alert" /\ NoKeywords
          => /\ received = 0 /\ text = "" /\ pc # "a_read"
             /\ Written("alert") = <<>> /\ Written("watching") = <<>>
             /\ stderr \in {<<>>, <<"No keywords specified\n">>}
             /\ stderr # <<>> => (pc \in {"co_finally", "co_done"} /\ exc # "none"))
    /\ [][(mode = "alert" /\ NoKeywords /\ pc = "co_mode" /\ pc' # pc /\ ~sigint')
          => /\ stderr' = <<"No keywords specified\n">>
             /\ exc' = "SystemExit"
             /\ pc' = "co_finally"]_vars

\* C20's case: alert mode was started with blank keywords and has ended
C20_Witness ==
    /\ mode = "alert" /\ pc = "co_done"
    /\ args_keywords = " , "
    /\ stderr = <<"No keywords specified\n">>
    /\ exc = "SystemExit"
    /\ Written("exiting") # <<>>

\* C21: in log mode, when the mode has exited the file is closed, and what
\* the session appended to it, if anything, is the session-start marker,
\* then the entries of the lines received, one each in input order, then
\* the session-end marker, however the session ended.
C21_SessionBracketed ==
    (mode = "log" /\ pc \in {"co_finally", "co_done"})
    => /\ ~fopen
       /\ logfile # <<>>
          => /\ Len(logfile) = received + 2
             /\ logfile[1] = Marker("start")
             /\ logfile[Len(logfile)] = Marker("end")
             /\ \A i \in 1..received : logfile[i + 1] = Entry(i)

\* C22: in periodic mode the heartbeat lines on stdout carry 1, 2, 3, ...
\* in this order; a step of the draining thread (a line taken off stdin, or
\* its end met) writes nothing and leaves the heartbeat loop where it is;
\* and as long as no interrupt is delivered and the pipe is intact, every
\* heartbeat is followed by the next one, whatever the draining thread has
\* read and also after it has met end-of-stream.
C22_Heartbeats ==
    /\ [](mode = "periodic"
          => \A i \in 1..Len(Written("heartbeat")) : Written("heartbeat")[i].n = i)
    /\ [][(mode = "periodic" /\ (received' # received \/ tpc' # tpc) /\ pc # "co_mode")
          => (stdout' = stdout /\ hb' = hb /\ pc' = pc)]_vars
    /\ \A k \in 0..(MaxBeats - 1) :
          (mode = "periodic" /\ pc \in {"p_beat", "p_sleep"} /\ hb = k)
          ~> (Len(Written("heartbeat")) > k \/ sigint \/ pipe)

\* C22's case: two lines of stdin were drained between the first and the
\* second heartbeat, stdin is at its end, and the loop is about to write the
\* third heartbeat
C22_Witness ==
    /\ mode = "periodic" /\ tpc = "d_done" /\ ~pipe /\ ~sigint
    /\ pc = "p_beat" /\ hb = 2
    /\ received = 2
    /\ Len(Written("heartbeat")) = 2
    /\ Written("heartbeat")[1].recv = 0
    /\ Written("heartbeat")[2].recv = 2

CommandEvent ==
    /\ mode = "command" /\ pc = "loop" /\ line'.t = "obj"
    /\ ~pipe /\ ~pipe' /\ ~sigint'

\* the SetPanel commands titled "Failed Commands" among cmds
FailedPanels(cmds) ==
    SelectSeq(cmds, LAMBDA c : c.type = "SetPanel" /\ c.title = "Failed Commands")

\* C26: in command mode the step that takes an event writes a SetPanel
\* "Failed Commands" exactly when a failure has been recorded, by an
\* earlier event or by this one: every event after the first failure
\* writes the panel again, and no event before it does.
C26_PanelIffFailureRecorded ==
    [][CommandEvent
       => (FailedPanels(out') # <<>>
             <=> (failed_commands # <<>> \/ failed_commands' # <<>>))]_vars

\* C25: in counter mode the final report is the last counter report on
\* stdout: no periodic report of the reporter thread is written after it,
\* and the main thread never stands at the final report's write while the
\* reporter thread is inside its own.
C25_FinalReportLast ==
    mode = "counter"
    => /\ \A i \in 1..Len(stdout) : \A j \in 1..Len(stdout) :
             (stdout[i].tag = "final" /\ j > i) => stdout[j].tag # "counter"
       /\ ~(pc = "c_final" /\ tpc = "r_write")

\* a command as an object of JSON values: every field but value is a str
Lift(cmd) == [k \in DOMAIN cmd |-> IF k = "value" THEN cmd[k] ELSE JStr(cmd[k])]

\* the fields each of the nine variants carries besides type
VariantFields(type) ==
    IF type = "Log" THEN {"level", "message"}
    ELSE IF type = "Notify" THEN {"title", "body"}
    ELSE IF type = "SetPanel" THEN {"title", "content"}
    ELSE IF type = "ClearPanel" THEN {}
    ELSE IF type \in {"WriteText", "SetBadge"} THEN {"text"}
    ELSE IF type = "SetVariable" THEN {"name", "value"}
    ELSE IF type = "RunCommand" THEN {"command"}
    ELSE {"key", "value"}

\* C24: for a command of any of the nine variants, what send writes is one
\* line (a newline at its end and nowhere else) that decodes to an object
\* with the command's type and the command's fields and values, and the
\* fields of the object are type and those of the variant, no more, no less.
C24_RoundTrip ==
    decoded # NotDecoded
    => LET cmd == out[1]
       IN  /\ \A i \in 1..Len(wire) : (Char(wire, i) = "\n") <=> (i = Len(wire))
           /\ decoded.st = "ok"
           /\ DOMAIN decoded.obj = {"type"} \cup VariantFields(cmd.type)
           /\ decoded.obj.type = JStr(cmd.type)
           /\ decoded.obj = Lift(cmd)

\* C24's case: a Log whose message holds a quote and a backslash has gone
\* through send and has been read back as it was
C24_Witness ==
    /\ out = <<log("error", "\"\\")>>
    /\ wire = "{\"type\": \"Log\", \"level\": \"error\", \"message\": \"\\\"\\\\\"}\n"
    /\ decoded.st = "ok"
    /\ decoded.obj.message = JStr("\"\\")

====
